---- MODULE Spec2Model ----
(***************************************************************************)
(* A model of the LLM gateway (provider selection, retry, fallback), the   *)
(* embedding service (batching) and the RAG query path (tenant scoping,    *)
(* multi-query merge, reranking, citation mapping) of Go_AI_Backend.       *)
(*                                                                         *)
(* The subsystems are state machines over disjoint groups of variables;    *)
(* each specification runs one of them:                                    *)
(*   SpecGateway     one Gateway.Chat call                                 *)
(*   SpecEmbed       one embedding.Service.Embed call                      *)
(*   SpecMultiQuery  one Pipeline.multiQueryRetrieve call                  *)
(*   SpecRerank      one LLMReranker.Rerank call                           *)
(*   SpecGenerate    one Generator.Generate call                           *)
(*   SpecPipeline    one authenticated /rag/query or /rag/search request   *)
(*   SpecChunk       one chunker Chunk call                                *)
(*   SpecIngest      one Pipeline.Ingest call                              *)
(*   SpecSingleAttempt  one Gateway.ChatStream or Gateway.Embed call       *)
(*   SpecStream      one provider ChatCompletionStream and its goroutine   *)
(*   SpecStreamLive  the same with a goroutine that runs when it can       *)
(*   SpecRewrite     one LLMQueryRewriter.Rewrite call                     *)
(*   SpecConcurrent  two gateway calls at the same time                    *)
(*   SpecReingest    Pipeline.Ingest called again for the same document    *)
(***************************************************************************)
EXTENDS Integers, Sequences, FiniteSets, TLC

\* ------------------------------------------------------------------ bounds
\* Largest configured retry count explored (LLM_MAX_RETRIES is any integer).
MaxRetries == 2
\* Largest number of texts handed to one Embed call.
MaxTexts == 250
\* Largest topK a request asks for.
MaxTopK == 5
\* Largest number of rows one vector-store search returns.
MaxHits == 3
\* Longest text handed to the chunker, in characters.
MaxTextLen == 4
\* Largest chunk size handed to the chunker.
MaxChunkSize == 3
\* Longest document handed to Ingest, in characters.
MaxDocLen == 3
\* Largest number of backend messages one chat stream carries before it ends.
MaxStreamMsgs == 5
\* Longest query handed to Rewrite, in characters.
MaxQueryLen == 2

\* ------------------------------------------------------------------ helpers
Min(a, b) == IF a < b THEN a ELSE b

\* ==================================================================
\* LLM gateway
\* ==================================================================
VARIABLES
  providers,         \* gateway.providers: the names registered by NewGateway
  defaultProvider,   \* gateway.defaultProvider
  fallbackProvider,  \* gateway.fallbackProvider ("" when none)
  maxRetries,        \* gateway.maxRetries
  reqProvider,       \* ChatRequest.Provider ("" when the request names none)
  ctxDone,           \* the caller's context has been cancelled
  gpc,               \* position of the Chat call
  providerName,      \* Chat's local providerName (the selected backend)
  cur,               \* chatWithRetry's parameter providerName
  onFallback,        \* the running chatWithRetry is the one of line 61
  attempt,           \* chatWithRetry's loop counter
  lastErr,           \* chatWithRetry's lastErr
  ret,               \* value returned by the running chatWithRetry
  calls,             \* provider log: the backends ChatCompletion was issued on
  result             \* what Chat returned

\* ---- embedding service (one Embed call)
VARIABLES
  texts,          \* Embed's argument
  epc,            \* position of the Embed call
  ei,             \* the loop variable i of Embed
  allEmbeddings,  \* Embed's allEmbeddings
  embedCalls,     \* gateway log: the EmbeddingRequests issued and their outcome
  eResult         \* what Embed returned

embVars == <<texts, epc, ei, allEmbeddings, embedCalls, eResult>>

\* ---- RAG query path (one Query or Search call)
VARIABLES
  ppc,          \* position of the call
  opts,         \* the RetrieveOptions handed to retrieve / multiQueryRetrieve
  queries,      \* multiQueryRetrieve's argument queries
  qi,           \* index of the query variant the loop of line 217 is at
  seen,         \* multiQueryRetrieve's seen (chunk ids whose value is true)
  allResults,   \* multiQueryRetrieve's allResults
  retrieveLog,  \* log of the Retriever.Retrieve calls and their outcomes
  results,      \* the results: retrieved, then reranked
  rerankIn,     \* Rerank's argument results
  llmOut,       \* what the reranker's gateway.Chat call and the parse gave
  rerankErr,    \* the error Rerank returned
  genIn,        \* GenerateRequest.Context
  prompt,       \* the context part of the user message Generate sent
  gen,          \* what Generate returned
  authTenant,   \* the tenant the auth middleware resolved for the caller
  rctx,         \* the request's context: the WithValue bindings, oldest first
  op,           \* the pipeline method called: "Query" or "Search"
  req,          \* the QueryRequest / SearchRequest decoded from the body
  llmCalls,     \* the enhancement generation calls made: "hyde", "rewrite"
  pResult       \* what Query / Search returned

ragVars == <<ppc, opts, queries, qi, seen, allResults, retrieveLog, results,
             rerankIn, llmOut, rerankErr, genIn, prompt, gen,
             authTenant, rctx, op, req, llmCalls, pResult>>

reqVars == <<authTenant, rctx, op, req, llmCalls, pResult>>

\* Chunker and ingest path.
VARIABLES
  cpc,          \* position of the Chunk call: "Chunk", "done", "idle"
  cText,        \* the text handed to Chunk: a sequence of characters
  cOpts,        \* the ChunkOptions handed to Chunk
  cOut,         \* the chunks Chunk returned
  ipc,          \* position of the Ingest call
  ireq,         \* the IngestRequest
  chunkResults, \* Ingest's chunkResults
  upserts,      \* the store.Upsert calls made: the chunk records of each
  iResult       \* what Ingest returned, or the panic it died of

\* Provider chat streams.
VARIABLES
  sProvider,    \* the backend whose ChatCompletionStream was called
  spc,          \* "open": the call is being made; "recv": the goroutine
                \* reads the backend; "closed"; "failed": no channel
  sEvents,      \* the StreamChunks sent on the channel so far
  sRecv,        \* the number of backend messages read since the initial state
  sBuf,         \* the number of StreamChunks waiting in the channel's buffer
  sConsumer     \* "reading": the consumer receives from the channel;
                \* "abandoned": it has stopped receiving

streamVars == <<sProvider, spc, sEvents, sRecv, sBuf, sConsumer>>

\* LLMQueryRewriter.Rewrite on texts.
VARIABLES
  wpc,          \* position of the Rewrite call: "Rewrite", "done", "idle"
  wQuery,       \* the query handed to Rewrite: a sequence of characters
  wContent,     \* resp.Content of the generation call, when it answers
  wOut          \* what Rewrite returned

rewriteVars == <<wpc, wQuery, wContent, wOut>>

\* Gateway calls running at the same time on one gateway.
VARIABLES
  chats         \* for every call: what it is, where it is, and its locals

\* The variables of the calls modelled on their own.
sideVars == <<rewriteVars, chats>>

chunkVars == <<cpc, cText, cOpts, cOut>>
ingestVars == <<ipc, ireq, chunkResults, upserts, iResult>>
docVars == <<chunkVars, ingestVars, streamVars, sideVars>>

mqVars == <<opts, queries, qi, seen, allResults, retrieveLog>>
rerankVars == <<rerankIn, llmOut, rerankErr>>
genVars == <<genIn, prompt, gen>>

gwConfig == <<providers, defaultProvider, fallbackProvider, maxRetries,
              reqProvider>>

gwVars == <<providers, defaultProvider, fallbackProvider, maxRetries,
            reqProvider, ctxDone, gpc, providerName, cur, onFallback, attempt,
            lastErr, ret, calls, result>>

notGateway == <<embVars, ragVars, docVars>>

\* The backends NewGateway can register.
ProviderNames == {"openai", "anthropic", "ollama"}

\* Values of (resp, err) pairs.  Every value has the same three fields.
NoErr == [type |-> "nil", name |-> "", cause |-> 0]
Ok(p) == [type |-> "ok", name |-> p, cause |-> 0]
\* fmt.Errorf("provider %q not configured", name)
ErrNotConfigured(n) == [type |-> "NotConfigured", name |-> n, cause |-> 0]
\* ctx.Err()
ErrCanceled == [type |-> "Canceled", name |-> "", cause |-> 0]
\* the error of the k-th provider call of this Chat call, made on backend p
ErrProvider(p, k) == [type |-> "Provider", name |-> p, cause |-> k]
\* fmt.Errorf("all retries exhausted for %s: %w", providerName, lastErr)
ErrExhausted(p, last) == [type |-> "Exhausted", name |-> p, cause |-> last.cause]

IsErr(r) == r.type \notin {"ok", "nil"}

\* NewGateway: the registry holds the backends whose key/URL is configured.
GatewayInit ==
  /\ providers \in SUBSET ProviderNames
  /\ defaultProvider \in ProviderNames \cup {""}
  /\ fallbackProvider \in ProviderNames \cup {""}
  /\ maxRetries \in (-1)..MaxRetries
  /\ reqProvider \in ProviderNames \cup {""}
  /\ ctxDone = FALSE
  /\ gpc = "Chat"
  /\ providerName = ""
  /\ cur = ""
  /\ onFallback = FALSE
  /\ attempt = 0
  /\ lastErr = NoErr
  /\ ret = NoErr
  /\ calls = <<>>
  /\ result = NoErr

\* gateway.Provider: is the name in the registry?
Provider(name) == name \in providers

\* Chat, lines 49-54: select the backend and enter chatWithRetry on it.
SelectedBackend == IF reqProvider = "" THEN defaultProvider ELSE reqProvider

ChatSelect ==
  /\ gpc = "Chat"
  /\ providerName' = SelectedBackend
  /\ cur' = SelectedBackend
  /\ onFallback' = FALSE
  /\ gpc' = "lookup"
  /\ UNCHANGED <<gwConfig, notGateway, ctxDone, attempt, lastErr, ret,
                 calls, result>>

\* chatWithRetry, lines 67-72: look the backend up; start the loop.
RetryLookup ==
  /\ gpc = "lookup"
  /\ IF Provider(cur)
       THEN /\ attempt' = 0
            /\ lastErr' = NoErr
            /\ gpc' = "loop"
            /\ ret' = ret
       ELSE /\ ret' = ErrNotConfigured(cur)
            /\ gpc' = "ret"
            /\ UNCHANGED <<attempt, lastErr>>
  /\ UNCHANGED <<gwConfig, notGateway, ctxDone, providerName, cur, onFallback, calls, result>>

\* The loop condition of line 73.
LoopGuardOffByOne(a) == a < maxRetries
LoopGuard(a) == a <= maxRetries

\* chatWithRetry, lines 73-80 and 90: the loop head.  On a retry the select
\* is entered; a context already cancelled wins it at once, because the
\* timer of time.After(backoff), backoff >= 500ms, cannot have fired yet.
RetryLoopHead ==
  /\ gpc = "loop"
  /\ IF LoopGuard(attempt)
       THEN IF attempt > 0
              THEN IF ctxDone
                     THEN /\ ret' = ErrCanceled
                          /\ gpc' = "ret"
                     ELSE /\ gpc' = "backoff"
                          /\ ret' = ret
              ELSE /\ gpc' = "call"
                   /\ ret' = ret
       ELSE /\ ret' = ErrExhausted(cur, lastErr)
            /\ gpc' = "ret"
  /\ UNCHANGED <<gwConfig, notGateway, ctxDone, providerName, cur, onFallback, attempt,
                 lastErr, calls, result>>

\* lines 76-78: the context is cancelled during the wait; the wait aborts.
BackoffCancelled ==
  /\ gpc = "backoff"
  /\ ctxDone
  /\ ret' = ErrCanceled
  /\ gpc' = "ret"
  /\ UNCHANGED <<gwConfig, notGateway, ctxDone, providerName, cur, onFallback, attempt,
                 lastErr, calls, result>>

\* line 79: the timer fires.  When the context was cancelled during the same
\* wait both cases of the select are ready and Go picks either.
BackoffElapsed ==
  /\ gpc = "backoff"
  /\ gpc' = "call"
  /\ UNCHANGED <<gwConfig, notGateway, ctxDone, providerName, cur, onFallback, attempt,
                 lastErr, ret, calls, result>>

\* lines 84-87: p.ChatCompletion succeeds (it cannot on a cancelled context).
AttemptSucceeds ==
  /\ gpc = "call"
  /\ ~ctxDone
  /\ calls' = Append(calls, cur)
  /\ ret' = Ok(cur)
  /\ gpc' = "ret"
  /\ UNCHANGED <<gwConfig, notGateway, ctxDone, providerName, cur, onFallback, attempt,
                 lastErr, result>>

\* line 89: lastErr = err.
RememberFirstError(prev, e) == IF prev = NoErr THEN e ELSE prev
RememberError(prev, e) == e

\* lines 84-89: p.ChatCompletion fails; remember the error, next iteration.
AttemptFails ==
  /\ gpc = "call"
  /\ calls' = Append(calls, cur)
  /\ lastErr' = RememberError(lastErr, ErrProvider(cur, Len(calls) + 1))
  /\ attempt' = attempt + 1
  /\ gpc' = "loop"
  /\ UNCHANGED <<gwConfig, notGateway, ctxDone, providerName, cur, onFallback, ret, result>>

\* Chat, line 55: the condition under which the fallback is tried.
UseFallbackInverted(err) ==
  /\ IsErr(err)
  /\ fallbackProvider # ""
  /\ fallbackProvider = providerName
UseFallback(err) ==
  /\ IsErr(err)
  /\ fallbackProvider # ""
  /\ fallbackProvider # providerName

\* Chat, lines 54-63: the first chatWithRetry has returned.
ChatAfterPrimary ==
  /\ gpc = "ret"
  /\ ~onFallback
  /\ IF UseFallback(ret)
       THEN /\ onFallback' = TRUE
            /\ cur' = fallbackProvider
            /\ gpc' = "lookup"
            /\ result' = result
       ELSE /\ result' = ret
            /\ gpc' = "done"
            /\ UNCHANGED <<onFallback, cur>>
  /\ UNCHANGED <<gwConfig, notGateway, ctxDone, providerName, attempt, lastErr, ret,
                 calls>>

\* Chat, line 61: the fallback's chatWithRetry has returned.
ChatAfterFallback ==
  /\ gpc = "ret"
  /\ onFallback
  /\ result' = ret
  /\ gpc' = "done"
  /\ UNCHANGED <<gwConfig, notGateway, ctxDone, providerName, cur, onFallback, attempt,
                 lastErr, ret, calls>>

\* The caller cancels the context while the call is running.
Cancel ==
  /\ gpc \notin {"Chat", "done"}
  /\ ~ctxDone
  /\ ctxDone' = TRUE
  /\ UNCHANGED <<gwConfig, notGateway, gpc, providerName, cur, onFallback, attempt,
                 lastErr, ret, calls, result>>

NextGateway ==
  \/ ChatSelect
  \/ RetryLookup
  \/ RetryLoopHead
  \/ BackoffCancelled
  \/ BackoffElapsed
  \/ AttemptSucceeds
  \/ AttemptFails
  \/ ChatAfterPrimary
  \/ ChatAfterFallback
  \/ Cancel

\* ==================================================================
\* Embedding service
\* ==================================================================
notEmbed == <<gwVars, ragVars, docVars>>

\* const batchSize = 100
batchSize == 100

\* The vector a backend computes for a text: a function of the text alone.
Vec(t) == [of |-> t]

\* No Embed call is running.
EmbedIdle ==
  /\ texts = <<>>
  /\ epc = "idle"
  /\ ei = 0
  /\ allEmbeddings = <<>>
  /\ embedCalls = <<>>
  /\ eResult = [err |-> "nil", batch |-> 0, vectors |-> <<>>]

\* Embed is called with n distinct texts, 0 <= n <= MaxTexts.
EmbedInit ==
  /\ texts \in {[k \in 1..n |-> k] : n \in 0..MaxTexts}
  /\ epc = "Embed"
  /\ ei = 0
  /\ allEmbeddings = <<>>
  /\ embedCalls = <<>>
  /\ eResult = [err |-> "nil", batch |-> 0, vectors |-> <<>>]

\* lines 23-25 and 29-31: no texts, no call; otherwise enter the loop.
EmbedStart ==
  /\ epc = "Embed"
  /\ IF Len(texts) = 0
       THEN /\ eResult' = [err |-> "nil", batch |-> 0, vectors |-> <<>>]
            /\ epc' = "done"
       ELSE /\ epc' = "loop"
            /\ eResult' = eResult
  /\ ei' = 0
  /\ UNCHANGED <<notEmbed, texts, allEmbeddings, embedCalls>>

\* lines 32-36: batch := texts[i:end], end clamped to len(texts).
BatchEnd(i) == Min(i + batchSize, Len(texts))
Batch(i) == SubSeq(texts, i + 1, BatchEnd(i))

\* What the backend answers for a batch: one vector per input in order, or
\* (a misbehaving backend) one vector short or one vector too many.
EmbeddingResponses(batch) ==
  LET full == [k \in 1..Len(batch) |-> Vec(batch[k])]
  IN  {full, SubSeq(full, 1, Len(batch) - 1), Append(full, Vec(batch[Len(batch)]))}

\* line 46: allEmbeddings = append(allEmbeddings, resp.Embeddings...)
AppendEmbeddingsReversed(all, resp) == resp \o all
AppendEmbeddings(all, resp) == all \o resp

\* lines 38-46, then i += batchSize: the gateway call of one batch succeeds.
EmbedBatchOk ==
  /\ epc = "loop"
  /\ ei < Len(texts)
  /\ \E resp \in EmbeddingResponses(Batch(ei)) :
       /\ embedCalls' = Append(embedCalls,
                               [input |-> Batch(ei), ok |-> TRUE, output |-> resp])
       /\ allEmbeddings' = AppendEmbeddings(allEmbeddings, resp)
  /\ ei' = ei + batchSize
  /\ UNCHANGED <<notEmbed, texts, epc, eResult>>

\* lines 42-44: return nil, fmt.Errorf("embed batch %d: %w", i/batchSize, err)
BatchErrorKeepsPartial(i, all) ==
  [err |-> "embed batch", batch |-> i \div batchSize, vectors |-> all]
BatchError(i, all) ==
  [err |-> "embed batch", batch |-> i \div batchSize, vectors |-> <<>>]

\* lines 38-44: the gateway call of one batch fails; Embed returns.
EmbedBatchFails ==
  /\ epc = "loop"
  /\ ei < Len(texts)
  /\ embedCalls' = Append(embedCalls,
                          [input |-> Batch(ei), ok |-> FALSE, output |-> <<>>])
  /\ eResult' = BatchError(ei, allEmbeddings)
  /\ epc' = "done"
  /\ UNCHANGED <<notEmbed, texts, ei, allEmbeddings>>

\* line 49: the loop is over; return allEmbeddings, nil.
EmbedReturn ==
  /\ epc = "loop"
  /\ ei >= Len(texts)
  /\ eResult' = [err |-> "nil", batch |-> 0, vectors |-> allEmbeddings]
  /\ epc' = "done"
  /\ UNCHANGED <<notEmbed, texts, ei, allEmbeddings, embedCalls>>

NextEmbed ==
  \/ EmbedStart
  \/ EmbedBatchOk
  \/ EmbedBatchFails
  \/ EmbedReturn

\* ==================================================================
\* RAG query path: vector store, Retriever, multiQueryRetrieve
\* ==================================================================
notRag == <<gwVars, embVars, docVars>>

\* uuid.Nil and the tenants of the system.
NilUUID == "00000000"
TenantIds == {"T1", "T2"}

\* A string, kept as what it is the text of and its length in bytes.
Str(of, len) == [of |-> of, len |-> len, cut |-> FALSE]

\* The rows of document_chunks at the time of the call, in a fixed order.
\* tenant_id is any tenants.id; the schema does not exclude the zero UUID.
StoreChunks ==
  << [id |-> "A", doc |-> "D1", tenant |-> "T1", index |-> 0, content |-> Str("A", 120)],
     [id |-> "B", doc |-> "D1", tenant |-> "T1", index |-> 1, content |-> Str("B", 200)],
     [id |-> "C", doc |-> "D1", tenant |-> "T1", index |-> 2, content |-> Str("C", 201)],
     [id |-> "D", doc |-> "D2", tenant |-> "T1", index |-> 0, content |-> Str("D", 750)],
     [id |-> "E", doc |-> "D2", tenant |-> "T1", index |-> 1, content |-> Str("E", 40)],
     [id |-> "F", doc |-> "D3", tenant |-> "T2", index |-> 0, content |-> Str("F", 300)],
     [id |-> "G", doc |-> "D4", tenant |-> NilUUID, index |-> 0, content |-> Str("G", 500)] >>

\* WHERE tenant_id = $2: the rows of one tenant.
TenantRows(t) == SelectSeq(StoreChunks, LAMBDA c : c.tenant = t)

RECURSIVE SortedSeq(_)
\* The elements of a finite set of integers in increasing order.
SortedSeq(S) ==
  IF S = {} THEN <<>>
  ELSE LET lo == CHOOSE x \in S : \A y \in S : x <= y
       IN  <<lo>> \o SortedSeq(S \ {lo})

\* The score of the row at position pos of the answer to query variant v, in
\* thousandths: decreasing down the answer (ORDER BY ... score), and different
\* for the same row under different variants.
ScoreOf(v, pos) == 900 - 100 * (pos - 1) - 10 * v

\* rows.Scan of one row into a SearchResult.
SearchResult(c, v, pos) ==
  [ChunkID |-> c.id, DocumentID |-> c.doc, Content |-> c.content,
   ChunkIndex |-> c.index, Score |-> ScoreOf(v, pos)]

\* LIMIT $3, with the store's default of 10 for a non-positive TopK.
StoreLimit(k) == IF k <= 0 THEN 10 ELSE k

\* The answers SimilaritySearch / HybridSearch can give for tenant t and limit
\* k: rows of that tenant only, no row twice, at most k of them.  Which rows
\* rank first depends on the query vector; the orders explored are the
\* selections of the tenant's rows in table order and the runs of consecutive
\* rows starting anywhere (wrapping round).
SearchAnswers(t, k) ==
  LET rows == TenantRows(t)
      n    == Len(rows)
      m    == Min(Min(StoreLimit(k), MaxHits), n)
      asc  == {SortedSeq(S) : S \in {X \in SUBSET (1..n) : Cardinality(X) <= m}}
      runs == {[j \in 1..l |-> ((s + j - 2) % n) + 1] : s \in 1..n, l \in 1..m}
  IN  {[j \in 1..Len(ix) |-> rows[ix[j]]] : ix \in asc \cup runs}

\* Retriever.Retrieve(query variant v, o): EmbedSingle, then one search with
\* searchOpts.TenantID = o.TenantID and searchOpts.TopK = o.TopK.  The outcome
\* records the search options the store was called with.
RetrieveOutcomes(v, o) ==
  {[query |-> v, kind |-> "embedErr", TenantID |-> o.TenantID, TopK |-> o.TopK,
    Hybrid |-> o.Hybrid, results |-> <<>>]}
  \cup
  {[query |-> v, kind |-> "searchErr", TenantID |-> o.TenantID, TopK |-> o.TopK,
    Hybrid |-> o.Hybrid, results |-> <<>>]}
  \cup
  {[query |-> v, kind |-> "ok", TenantID |-> o.TenantID, TopK |-> o.TopK,
    Hybrid |-> o.Hybrid,
    results |-> [j \in 1..Len(rows) |-> SearchResult(rows[j], v, j)]]
     : rows \in SearchAnswers(o.TenantID, o.TopK)}

\* Rerank has not been called.
RerankIdle ==
  /\ rerankIn = <<>>
  /\ llmOut = [kind |-> "none", scores |-> <<>>]
  /\ rerankErr = "nil"

\* Generate has not been called.
GenerateIdle ==
  /\ genIn = <<>>
  /\ prompt = <<>>
  /\ gen = [err |-> "nil", Answer |-> "", Citations |-> <<>>]

\* No request is being served.
RequestIdle ==
  /\ authTenant = NilUUID
  /\ rctx = <<>>
  /\ op = "none"
  /\ req = [TopK |-> 0, Hybrid |-> FALSE, Rerank |-> FALSE,
            QueryRewrite |-> FALSE, UseHyDE |-> FALSE]
  /\ llmCalls = <<>>
  /\ pResult = [err |-> "none", results |-> <<>>, citations |-> <<>>]

\* No Query or Search call is running.
RagIdle ==
  /\ ppc = "idle"
  /\ opts = [TenantID |-> NilUUID, TopK |-> 0, Hybrid |-> FALSE]
  /\ queries = <<>>
  /\ qi = 0
  /\ seen = {}
  /\ allResults = <<>>
  /\ retrieveLog = <<>>
  /\ results = <<>>
  /\ RerankIdle
  /\ GenerateIdle
  /\ RequestIdle

\* The query variants Rewrite returns: the original first, then the rewrites.
\* Variant v is the v-th of them (0 is the original query).
QueryLists == {<<0, 1>>, <<0, 1, 2>>}

\* multiQueryRetrieve is entered (pipeline.go:204) with more than one query
\* and options whose TopK is positive.
MultiQueryInit ==
  /\ ppc = "multiQuery"
  /\ opts \in [TenantID : TenantIds \cup {NilUUID}, TopK : 1..MaxTopK,
               Hybrid : {FALSE}]
  /\ queries \in QueryLists
  /\ qi = 1
  /\ seen = {}
  /\ allResults = <<>>
  /\ retrieveLog = <<>>
  /\ results = <<>>
  /\ RerankIdle
  /\ GenerateIdle
  /\ RequestIdle

RECURSIVE MergeNoDedup(_, _)
\* lines 222-227 without the seen test.
MergeNoDedup(acc, rs) ==
  IF rs = <<>> THEN acc
  ELSE MergeNoDedup([seen |-> acc.seen \cup {Head(rs).ChunkID},
                     all |-> Append(acc.all, Head(rs))], Tail(rs))

RECURSIVE MergeResults(_, _)
\* lines 222-227: append the results whose chunk id was not seen yet.
MergeResults(acc, rs) ==
  IF rs = <<>> THEN acc
  ELSE LET r == Head(rs)
       IN  MergeResults(IF r.ChunkID \in acc.seen
                          THEN acc
                          ELSE [seen |-> acc.seen \cup {r.ChunkID},
                                all |-> Append(acc.all, r)],
                        Tail(rs))

\* lines 217-228: one iteration of the loop over the query variants; a
\* failed Retrieve is skipped.
MultiQueryStep ==
  /\ ppc = "multiQuery"
  /\ qi <= Len(queries)
  /\ \E out \in RetrieveOutcomes(queries[qi], opts) :
       /\ retrieveLog' = Append(retrieveLog, out)
       /\ IF out.kind = "ok"
            THEN LET acc == MergeResults([seen |-> seen, all |-> allResults],
                                         out.results)
                 IN  /\ seen' = acc.seen
                     /\ allResults' = acc.all
            ELSE UNCHANGED <<seen, allResults>>
  /\ qi' = qi + 1
  /\ UNCHANGED <<notRag, ppc, opts, queries, results, rerankVars, genVars, reqVars>>

\* lines 231-233: allResults[:opts.TopK] when longer than TopK.
CapTopK(rs, k) == IF Len(rs) > k THEN SubSeq(rs, 1, k) ELSE rs

\* lines 230-235: the loop is over; cap and return (never an error).
MultiQueryReturn ==
  /\ ppc = "multiQuery"
  /\ qi > Len(queries)
  /\ results' = CapTopK(allResults, opts.TopK)
  /\ ppc' = "retrieved"
  /\ UNCHANGED <<notRag, mqVars, rerankVars, genVars, reqVars>>

NextMultiQuery ==
  \/ MultiQueryStep
  \/ MultiQueryReturn

\* ==================================================================
\* RAG query path: LLMReranker.Rerank
\* ==================================================================
\* The text of a model reply, as the pieces the parse tells apart: white
\* space, a ``` fence, the word json, other prose, a JSON array of
\* {index, score} objects (v holds them), and a JSON value of another shape.
Piece(t) == [t |-> t, v |-> <<>>]
ArrayPiece(a) == [t |-> "array", v |-> a]

\* strings.TrimSpace
RECURSIVE TrimLeft(_)
TrimLeft(c) == IF c # <<>> /\ Head(c).t = "ws" THEN TrimLeft(Tail(c)) ELSE c
RECURSIVE TrimRight(_)
TrimRight(c) ==
  IF c # <<>> /\ c[Len(c)].t = "ws" THEN TrimRight(SubSeq(c, 1, Len(c) - 1)) ELSE c
TrimSpace(c) == TrimRight(TrimLeft(c))

\* strings.TrimPrefix / strings.TrimSuffix
TrimPrefix(c, pre) ==
  IF Len(c) >= Len(pre) /\ SubSeq(c, 1, Len(pre)) = pre
    THEN SubSeq(c, Len(pre) + 1, Len(c)) ELSE c
TrimSuffix(c, suf) ==
  IF Len(c) >= Len(suf) /\ SubSeq(c, Len(c) - Len(suf) + 1, Len(c)) = suf
    THEN SubSeq(c, 1, Len(c) - Len(suf)) ELSE c

\* lines 71-76: strip the markdown code fences.
StripFences(content) ==
  LET c1 == TrimSpace(content)
      c2 == TrimPrefix(c1, <<Piece("fence"), Piece("json")>>)
      c3 == TrimPrefix(c2, <<Piece("fence")>>)
      c4 == TrimSuffix(c3, <<Piece("fence")>>)
  IN  TrimSpace(c4)

\* line 78: json.Unmarshal into []struct{Index int; Score float64}.  It
\* succeeds on one array of such objects (white space around it allowed).
Unmarshal(c) ==
  LET body == TrimSpace(c)
  IN  IF Len(body) = 1 /\ body[1].t = "array"
        THEN [ok |-> TRUE, scores |-> body[1].v]
        ELSE [ok |-> FALSE, scores |-> <<>>]

\* The scores a model gives, in thousandths.
ScoreValues == {200, 900}

\* The arrays a model may answer for n candidates: one object for each index
\* of some subset of 0..n-1, in index order, then possibly one more object
\* whose index is out of range (n) or repeats index 0.
ScoreArrays(n) ==
  LET scored == UNION {[S -> ScoreValues] : S \in SUBSET (0..(n - 1))}
      inOrder(f) == LET ix == SortedSeq(DOMAIN f)
                    IN  [k \in 1..Len(ix) |-> [Index |-> ix[k], Score |-> f[ix[k]]]]
      extras == {<<>>} \cup {<<[Index |-> i, Score |-> v]>> : i \in {0, n}, v \in ScoreValues}
  IN  {inOrder(f) \o e : f \in scored, e \in extras}

\* The replies explored for n candidates: the array bare, fenced as
\* ```json ... ```, fenced as ``` ... ```, padded with white space, preceded
\* by prose; prose only; a JSON value of the wrong shape; the empty reply.
RerankReplies(n) ==
  UNION {{ <<ArrayPiece(a)>>,
           <<Piece("fence"), Piece("json"), Piece("ws"), ArrayPiece(a),
             Piece("ws"), Piece("fence")>>,
           <<Piece("fence"), Piece("ws"), ArrayPiece(a), Piece("ws"),
             Piece("fence")>>,
           <<Piece("ws"), ArrayPiece(a), Piece("ws")>>,
           <<Piece("prose"), Piece("ws"), ArrayPiece(a)>> } : a \in ScoreArrays(n)}
  \cup {<<Piece("prose")>>, <<Piece("other")>>, <<>>,
        <<Piece("fence"), Piece("json"), Piece("ws"), Piece("other"),
          Piece("ws"), Piece("fence")>>}

RECURSIVE ScoreMap(_, _)
\* lines 83-86: scoreMap[s.Index] = s.Score, a later object overriding an
\* earlier one of the same index.  m is the map so far.
ScoreMap(m, scores) ==
  IF scores = <<>> THEN m
  ELSE LET e == Head(scores)
       IN  ScoreMap([k \in DOMAIN m \cup {e.Index} |->
                       IF k = e.Index THEN e.Score ELSE m[k]],
                    Tail(scores))

\* lines 88-94 with the indices taken as one-based.
ApplyScoresOneBased(rs, scores) ==
  LET m == ScoreMap(<<>>, scores)
  IN  [i \in 1..Len(rs) |->
         IF i \in DOMAIN m THEN [rs[i] EXCEPT !.Score = m[i]] ELSE rs[i]]

\* lines 88-94: copy the results and replace the score of every index the
\* map holds (indices are zero-based).
ApplyScores(rs, scores) ==
  LET m == ScoreMap(<<>>, scores)
  IN  [i \in 1..Len(rs) |->
         IF (i - 1) \in DOMAIN m THEN [rs[i] EXCEPT !.Score = m[i - 1]]
                                  ELSE rs[i]]

\* lines 96-98: sort.Slice by descending score.  The sort is not stable: any
\* arrangement with non-increasing scores may come out.
SortedByScore(rs) ==
  LET n == Len(rs)
      perms == {p \in [1..n -> 1..n] : \A i, j \in 1..n : p[i] = p[j] => i = j}
  IN  {out \in {[k \in 1..n |-> rs[p[k]]] : p \in perms} :
         \A k \in 1..(n - 1) : out[k].Score >= out[k + 1].Score}

\* lines 61-64 and 78-80: what Rerank returns when the call or the parse
\* failed: the results it was given.
OnRerankFailureNil(rs) == {<<>>}
OnRerankFailure(rs) == {rs}

\* Rerank was called on a non-empty or empty result list.
RerankInit ==
  /\ ppc = "rerank"
  /\ results \in {o.results : o \in {x \in RetrieveOutcomes(0, [TenantID |-> "T1",
                        TopK |-> MaxTopK, Hybrid |-> FALSE]) : x.kind = "ok"}}
  /\ rerankIn = <<>>
  /\ llmOut = [kind |-> "none", scores |-> <<>>]
  /\ rerankErr = "nil"
  /\ opts = [TenantID |-> "T1", TopK |-> MaxTopK, Hybrid |-> FALSE]
  /\ queries = <<>>
  /\ qi = 0
  /\ seen = {}
  /\ allResults = <<>>
  /\ retrieveLog = <<>>
  /\ GenerateIdle
  /\ RequestIdle

\* lines 34-36: nothing to rerank.
RerankEmpty ==
  /\ ppc = "rerank"
  /\ Len(results) = 0
  /\ rerankIn' = results
  /\ llmOut' = [kind |-> "none", scores |-> <<>>]
  /\ rerankErr' = "nil"
  /\ results' = results
  /\ ppc' = "reranked"
  /\ UNCHANGED <<notRag, mqVars, genVars, reqVars>>

\* lines 44-64: gateway.Chat fails; the results come back as they were.
RerankChatFails ==
  /\ ppc = "rerank"
  /\ Len(results) > 0
  /\ rerankIn' = results
  /\ llmOut' = [kind |-> "chatErr", scores |-> <<>>]
  /\ rerankErr' = "nil"
  /\ results' \in OnRerankFailure(results)
  /\ ppc' = "reranked"
  /\ UNCHANGED <<notRag, mqVars, genVars, reqVars>>

\* lines 44-80: gateway.Chat answers, json.Unmarshal fails.
RerankParseFails ==
  /\ ppc = "rerank"
  /\ Len(results) > 0
  /\ \E reply \in RerankReplies(Len(results)) :
       /\ ~Unmarshal(StripFences(reply)).ok
       /\ llmOut' = [kind |-> "parseErr", scores |-> <<>>]
  /\ rerankIn' = results
  /\ rerankErr' = "nil"
  /\ results' \in OnRerankFailure(results)
  /\ ppc' = "reranked"
  /\ UNCHANGED <<notRag, mqVars, genVars, reqVars>>

\* lines 44-100: gateway.Chat answers, the scores parse, are applied by index
\* and the whole list is sorted.
RerankApplies ==
  /\ ppc = "rerank"
  /\ Len(results) > 0
  /\ \E reply \in RerankReplies(Len(results)) :
       LET parsed == Unmarshal(StripFences(reply))
       IN  /\ parsed.ok
           /\ llmOut' = [kind |-> "ok", scores |-> parsed.scores]
           /\ results' \in SortedByScore(ApplyScores(results, parsed.scores))
  /\ rerankIn' = results
  /\ rerankErr' = "nil"
  /\ ppc' = "reranked"
  /\ UNCHANGED <<notRag, mqVars, genVars, reqVars>>

NextRerank ==
  \/ RerankEmpty
  \/ RerankChatFails
  \/ RerankParseFails
  \/ RerankApplies

\* ==================================================================
\* RAG query path: Generator.Generate
\* ==================================================================
\* truncate(s, maxLen): s when it fits, else its first maxLen bytes and "...".
truncate(s, maxLen) ==
  IF s.len <= maxLen THEN s
  ELSE [of |-> s.of, len |-> maxLen + 3, cut |-> TRUE]

\* uuid.UUID.String(): the textual form of a UUID.
UUIDString(u) == <<"uuid", u>>

\* fmt's %.3f of a score held in thousandths: integer part, three decimals.
Fmt3(score) == <<score \div 1000, score % 1000>>

\* buildContext: one "[Source i+1] (score: %.3f)\n<content>" block per
\* result, in order (i is the zero-based position).
buildContext(rs) ==
  [k \in 1..Len(rs) |->
     [source |-> (k - 1) + 1, score |-> Fmt3(rs[k].Score), content |-> rs[k].Content]]

\* lines 97-102: the citation made from one context entry.
Citation(c) ==
  [DocumentID |-> UUIDString(c.DocumentID), ChunkID |-> UUIDString(c.ChunkID),
   Content |-> truncate(c.Content, 200), Score |-> c.Score]

\* lines 95-103: citations[i] is made from req.Context[i].
CitationsReversed(ctx) == [k \in 1..Len(ctx) |-> Citation(ctx[Len(ctx) + 1 - k])]
Citations(ctx) == [k \in 1..Len(ctx) |-> Citation(ctx[k])]

\* Generate is called with what a retrieval (of any tenant, any variant)
\* returned, possibly rescored by the reranker.
GenerateInit ==
  /\ ppc = "generate"
  /\ results \in UNION {{o.results, [k \in 1..Len(o.results) |->
                                       [o.results[Len(o.results) + 1 - k]
                                          EXCEPT !.Score = 200 * k]]}
                          : o \in {x \in UNION {RetrieveOutcomes(v,
                                       [TenantID |-> t, TopK |-> MaxTopK,
                                        Hybrid |-> FALSE])
                                      : v \in 0..1, t \in TenantIds \cup {NilUUID}}
                                   : x.kind = "ok"}}
  /\ opts = [TenantID |-> NilUUID, TopK |-> MaxTopK, Hybrid |-> FALSE]
  /\ queries = <<>>
  /\ qi = 0
  /\ seen = {}
  /\ allResults = <<>>
  /\ retrieveLog = <<>>
  /\ RerankIdle
  /\ GenerateIdle
  /\ RequestIdle

\* lines 69-93: the prompt is built and sent; gateway.Chat fails.
GenerateChatFails ==
  /\ ppc = "generate"
  /\ genIn' = results
  /\ prompt' = buildContext(results)
  /\ gen' = [err |-> "generate answer", Answer |-> "", Citations |-> <<>>]
  /\ ppc' = "generated"
  /\ UNCHANGED <<notRag, mqVars, results, rerankVars, reqVars>>

\* lines 69-109: the prompt is built and sent; gateway.Chat answers; the
\* citations are made from the same context list.
GenerateAnswers ==
  /\ ppc = "generate"
  /\ genIn' = results
  /\ prompt' = buildContext(results)
  /\ gen' = [err |-> "nil", Answer |-> "resp.Content", Citations |-> Citations(results)]
  /\ ppc' = "generated"
  /\ UNCHANGED <<notRag, mqVars, results, rerankVars, reqVars>>

NextGenerate ==
  \/ GenerateChatFails
  \/ GenerateAnswers

\* ==================================================================
\* RAG query path: auth middleware, handlers, pipeline.Query / Search
\* ==================================================================
\* context.WithValue and Context.Value.  A key is its Go type and its value:
\* two keys are equal only when both agree.
WithValue(ctx, key, val) == Append(ctx, [key |-> key, val |-> val])
NoValue == [type |-> "nil", id |-> NilUUID]
Value(ctx, key) ==
  LET hits == {k \in 1..Len(ctx) : ctx[k].key = key}
  IN  IF hits = {} THEN NoValue
      ELSE ctx[CHOOSE k \in hits : \A j \in hits : j <= k].val

\* tenant/context.go: const tenantKey contextKey = "tenant" (and userKey).
tenantKey == [type |-> "tenant.contextKey", name |-> "tenant"]
userKey == [type |-> "tenant.contextKey", name |-> "user"]
\* auth/middleware.go: const claimsKey ctxKey = "claims".
claimsKey == [type |-> "auth.ctxKey", name |-> "claims"]

\* tenant.WithTenant(ctx, t): binds the *models.Tenant under tenantKey.
WithTenant(ctx, t) == WithValue(ctx, tenantKey, [type |-> "*models.Tenant", id |-> t])

\* tenant.IDFromContext: the id of the tenant bound under tenantKey.
IDFromContext(ctx) ==
  LET v == Value(ctx, tenantKey)
  IN  IF v.type = "*models.Tenant" THEN v.id ELSE NilUUID

\* pipeline.go:238-244: looks up the key tenantIDKey("tenant_id"), of a type
\* declared inside the function, and wants a uuid.UUID under it.
getTenantIDFromContext(ctx) ==
  LET v == Value(ctx, [type |-> "rag.getTenantIDFromContext.tenantIDKey",
                       name |-> "tenant_id"])
  IN  IF v.type = "uuid.UUID" THEN v.id ELSE NilUUID

\* The topK values a request body may carry.
ReqTopKs == {-1, 0, 1, MaxTopK}

\* A request arrives: the caller's credentials resolve to authTenant; the
\* body decodes to req.
PipelineInit ==
  /\ ppc = "request"
  /\ authTenant \in TenantIds
  /\ rctx = <<>>
  /\ op \in {"Query", "Search"}
  /\ req \in [TopK : ReqTopKs, Hybrid : BOOLEAN, Rerank : BOOLEAN,
              QueryRewrite : BOOLEAN, UseHyDE : BOOLEAN]
  /\ llmCalls = <<>>
  /\ pResult = [err |-> "none", results |-> <<>>, citations |-> <<>>]
  /\ opts = [TenantID |-> NilUUID, TopK |-> 0, Hybrid |-> FALSE]
  /\ queries = <<>>
  /\ qi = 0
  /\ seen = {}
  /\ allResults = <<>>
  /\ retrieveLog = <<>>
  /\ results = <<>>
  /\ RerankIdle
  /\ GenerateIdle

\* JWTMiddleware.Authenticate (middleware.go:67-86): the tenant, the user and
\* the claims are bound in the request's context; the handler runs.
Authenticate ==
  /\ ppc = "request"
  /\ rctx' = WithValue(WithValue(WithTenant(rctx, authTenant),
                                 userKey, [type |-> "*models.User", id |-> authTenant]),
                       claimsKey, [type |-> "*auth.Claims", id |-> authTenant])
  /\ ppc' = "handler"
  /\ UNCHANGED <<notRag, mqVars, results, rerankVars, genVars, authTenant, op,
                 req, llmCalls, pResult>>

\* Query lines 120-122: req.TopK <= 0 becomes 5.
QueryTopKNoDefault(k) == k
QueryTopK(k) == IF k <= 0 THEN 5 ELSE k
\* Search lines 163-165: req.TopK <= 0 becomes 10.
SearchTopK(k) == IF k <= 0 THEN 10 ELSE k

\* Query lines 119-131 / Search lines 162-174: default TopK, read the tenant
\* id from the context, call retrieve with these options.
PipelineBegin ==
  /\ ppc = "handler"
  /\ opts' = [TenantID |-> getTenantIDFromContext(rctx),
              TopK |-> IF op = "Query" THEN QueryTopK(req.TopK)
                                       ELSE SearchTopK(req.TopK),
              Hybrid |-> req.Hybrid]
  /\ ppc' = "retrieve"
  /\ UNCHANGED <<notRag, queries, qi, seen, allResults, retrieveLog, results,
                 rerankVars, genVars, reqVars>>

\* The query variants: 0 the original query, 1 and 2 rewrites of it.
\* The hypothetical document HyDE generates is retrieved with as variant 3.
HypoDoc == 3
\* A line of the rewriter's reply that is empty after TrimSpace.
Blank == -1

\* pipeline.retrieve lines 189-191: GenerateHypothetical fails or gives "".
HydeFails ==
  /\ ppc = "retrieve"
  /\ req.UseHyDE
  /\ llmCalls' = Append(llmCalls, "hyde")
  /\ ppc' = "afterHyde"
  /\ UNCHANGED <<notRag, mqVars, results, rerankVars, genVars, authTenant,
                 rctx, op, req, pResult>>

\* lines 190-197: the hypothetical document is retrieved with; non-empty
\* results are returned, anything else falls through.
HydeRetrieve ==
  /\ ppc = "retrieve"
  /\ req.UseHyDE
  /\ llmCalls' = Append(llmCalls, "hyde")
  /\ \E out \in RetrieveOutcomes(HypoDoc, opts) :
       /\ retrieveLog' = Append(retrieveLog, out)
       /\ IF out.kind = "ok" /\ Len(out.results) > 0
            THEN /\ results' = out.results
                 /\ ppc' = "retrieved"
            ELSE /\ results' = results
                 /\ ppc' = "afterHyde"
  /\ UNCHANGED <<notRag, opts, queries, qi, seen, allResults, rerankVars,
                 genVars, authTenant, rctx, op, req, pResult>>

\* HyDE is over or was not asked for: line 201 is reached.
AtRewrite == ppc = "afterHyde" \/ (ppc = "retrieve" /\ ~req.UseHyDE)

\* The lines of a rewriter reply, after TrimSpace of each: a rewrite (1, 2),
\* the original query again (0), or nothing (Blank).
RewriteReplies == {<<l>> : l \in {Blank, 0, 1, 2}}

\* LLMQueryRewriter.Rewrite lines 52-61: the original query, then the
\* non-empty lines that differ from it.
RewriteLines(lines) == <<0>> \o SelectSeq(lines, LAMBDA l : l # Blank /\ l # 0)

\* What Rewrite can return: [query] when gateway.Chat fails (lines 48-50).
RewriteOutcomes == {<<0>>} \cup {RewriteLines(r) : r \in RewriteReplies}

\* pipeline.retrieve lines 201-206: Rewrite is called; with more than one
\* query multiQueryRetrieve is entered, else the standard retrieval follows.
RewriteCall ==
  /\ AtRewrite
  /\ req.QueryRewrite
  /\ llmCalls' = Append(llmCalls, "rewrite")
  /\ \E qs \in RewriteOutcomes :
       /\ queries' = qs
       /\ IF Len(qs) > 1
            THEN /\ ppc' = "multiQuery"
                 /\ qi' = 1
                 /\ seen' = {}
                 /\ allResults' = <<>>
            ELSE /\ ppc' = "standard"
                 /\ UNCHANGED <<qi, seen, allResults>>
  /\ UNCHANGED <<notRag, opts, retrieveLog, results, rerankVars, genVars,
                 authTenant, rctx, op, req, pResult>>

\* line 209: the standard retrieval with the original query; its error is
\* the error of retrieve, and of Query ("retrieve: ...") and Search.
StandardRetrieve ==
  /\ ppc = "standard" \/ (AtRewrite /\ ~req.QueryRewrite)
  /\ \E out \in RetrieveOutcomes(0, opts) :
       /\ retrieveLog' = Append(retrieveLog, out)
       /\ IF out.kind = "ok"
            THEN /\ results' = out.results
                 /\ ppc' = "retrieved"
                 /\ pResult' = pResult
            ELSE /\ results' = results
                 /\ ppc' = "done"
                 /\ pResult' = [err |-> "retrieve", results |-> <<>>,
                                citations |-> <<>>]
  /\ UNCHANGED <<notRag, opts, queries, qi, seen, allResults, rerankVars,
                 genVars, authTenant, rctx, op, req, llmCalls>>

\* Query lines 136-138 / Search lines 179-180: rerank when asked to and
\* there is something to rerank.
WantsRerank == req.Rerank /\ Len(results) > 0

\* retrieve has returned results: on to Rerank, to Generate (Query) or back
\* to the caller (Search).
AfterRetrieve ==
  /\ ppc = "retrieved"
  /\ op \in {"Query", "Search"}
  /\ IF WantsRerank
       THEN ppc' = "rerank" /\ pResult' = pResult
       ELSE IF op = "Query"
              THEN ppc' = "generate" /\ pResult' = pResult
              ELSE /\ ppc' = "done"
                   /\ pResult' = [err |-> "nil", results |-> results,
                                  citations |-> <<>>]
  /\ UNCHANGED <<notRag, mqVars, results, rerankVars, genVars, authTenant,
                 rctx, op, req, llmCalls>>

\* Query lines 138-152: Rerank's error would fail the call; else Generate.
\* Search lines 180-183: Rerank's error is dropped; the results are returned.
RerankFatalAlways(err) == TRUE
RerankFatal(err) == err # "nil"

AfterRerank ==
  /\ ppc = "reranked"
  /\ op \in {"Query", "Search"}
  /\ IF op = "Query"
       THEN IF RerankFatal(rerankErr)
              THEN /\ ppc' = "done"
                   /\ pResult' = [err |-> "rerank", results |-> <<>>,
                                  citations |-> <<>>]
              ELSE ppc' = "generate" /\ pResult' = pResult
       ELSE /\ ppc' = "done"
            /\ pResult' = [err |-> "nil", results |-> results,
                           citations |-> <<>>]
  /\ UNCHANGED <<notRag, mqVars, results, rerankVars, genVars, authTenant,
                 rctx, op, req, llmCalls>>

\* Query lines 150-159: Generate's error fails the call ("generate: ...");
\* otherwise the answer and the citations are returned.
QueryReturn ==
  /\ ppc = "generated"
  /\ op = "Query"
  /\ pResult' = IF gen.err # "nil"
                  THEN [err |-> "generate", results |-> <<>>, citations |-> <<>>]
                  ELSE [err |-> "nil", results |-> results,
                        citations |-> gen.Citations]
  /\ ppc' = "done"
  /\ UNCHANGED <<notRag, mqVars, results, rerankVars, genVars, authTenant,
                 rctx, op, req, llmCalls>>

\* multiQueryRetrieve returns into retrieve, and retrieve into lines 132 / 175.
\* Rerank is entered with at least one result (lines 136, 179).
NextPipeline ==
  \/ Authenticate
  \/ PipelineBegin
  \/ HydeFails
  \/ HydeRetrieve
  \/ RewriteCall
  \/ StandardRetrieve
  \/ MultiQueryStep
  \/ MultiQueryReturn
  \/ AfterRetrieve
  \/ RerankChatFails
  \/ RerankParseFails
  \/ RerankApplies
  \/ AfterRerank
  \/ GenerateChatFails
  \/ GenerateAnswers
  \/ QueryReturn

\* ==================================================================
\* Provider ChatCompletionStream: OpenAI (openai.go:80-124), Anthropic
\* (prompt_injection.go:233-297), Ollama (part_013:112-163)
\* ==================================================================
\* usage: the chunk carries the token counts of the backend's last message.
StreamChunk(content, done, error, usage) ==
  [Content |-> content, Done |-> done, Error |-> error, Usage |-> usage]

\* No stream is open.
StreamIdle ==
  /\ sProvider = ""
  /\ spc = "idle"
  /\ sEvents = <<>>
  /\ sRecv = 0
  /\ sBuf = 0
  /\ sConsumer = "idle"

\* ChatCompletionStream is called on one of the three backends.
StreamInit ==
  /\ sProvider \in ProviderNames
  /\ spc = "open"
  /\ sEvents = <<>>
  /\ sRecv = 0
  /\ sBuf = 0
  /\ sConsumer = "reading"

\* ch := make(chan StreamChunk, 64) (openai.go:104, part_013:136,
\* prompt_injection.go:268).
ChanCap == 64

\* A stream under way: the goroutine has sent between ChanCap - MaxStreamMsgs
\* and ChanCap content chunks, and the consumer, reading or not, has received
\* all but sBuf of them.
StreamMidway ==
  /\ sProvider \in ProviderNames
  /\ spc = "recv"
  /\ \E n \in (ChanCap - MaxStreamMsgs)..ChanCap :
       /\ sEvents = [k \in 1..n |-> StreamChunk("delta", FALSE, FALSE, FALSE)]
       /\ sBuf \in (ChanCap - MaxStreamMsgs)..n
  /\ sRecv = 0
  /\ sConsumer \in {"reading", "abandoned"}

StreamFrame == <<gwVars, embVars, ragVars, chunkVars, ingestVars, sideVars, sProvider,
                 sConsumer>>

\* openai.go:99-102, part_013:124-134: the request fails; no channel is
\* returned.  (Anthropic's NewStreaming returns no error.)
StreamOpenFails ==
  /\ spc = "open"
  /\ sProvider \in {"openai", "ollama"}
  /\ spc' = "failed"
  /\ UNCHANGED <<StreamFrame, sEvents, sRecv, sBuf>>

\* The channel is made and returned; the goroutine starts reading.
StreamOpens ==
  /\ spc = "open"
  /\ spc' = "recv"
  /\ UNCHANGED <<StreamFrame, sEvents, sRecv, sBuf>>

\* `ch <- c` on the buffered channel: the send goes through when the buffer
\* has room (a consumer that is receiving makes room by ConsumerReceives) and
\* blocks otherwise; no send selects on ctx.Done().
ChanSend(c) ==
  /\ sBuf < ChanCap
  /\ sEvents' = Append(sEvents, c)
  /\ sBuf' = sBuf + 1

\* The goroutine's sends: a content chunk; a last chunk followed by the
\* deferred close(ch); the deferred close alone.
Send(c) == ChanSend(c) /\ spc' = "recv" /\ sRecv' = sRecv + 1
SendNothing == sEvents' = sEvents /\ sBuf' = sBuf /\ spc' = "recv" /\ sRecv' = sRecv + 1
SendAndClose(c) == ChanSend(c) /\ spc' = "closed" /\ sRecv' = sRecv
CloseOnly == sEvents' = sEvents /\ sBuf' = sBuf /\ spc' = "closed" /\ sRecv' = sRecv

Reading(p) == spc = "recv" /\ sProvider = p

\* openai.go:109-120.  stream.Recv gives a response with a choice (its delta
\* is sent) or without one (nothing is sent).
OpenAIRecvDelta ==
  /\ Reading("openai")
  /\ sRecv < MaxStreamMsgs
  /\ Send(StreamChunk("delta", FALSE, FALSE, FALSE)) \/ SendNothing
  /\ UNCHANGED StreamFrame

\* openai.go:110-113: io.EOF.
OpenAIRecvEOF ==
  /\ Reading("openai")
  /\ SendAndClose(StreamChunk("", TRUE, FALSE, FALSE))
  /\ UNCHANGED StreamFrame

\* openai.go:114-117: any other error.
OpenAIRecvError ==
  /\ Reading("openai")
  /\ SendAndClose(StreamChunk("", TRUE, TRUE, FALSE))
  /\ UNCHANGED StreamFrame

\* prompt_injection.go:274-282: stream.Next gives an event: a text delta is
\* sent, any other event but message_stop is only accumulated.
AnthropicNextEvent ==
  /\ Reading("anthropic")
  /\ sRecv < MaxStreamMsgs
  /\ Send(StreamChunk("delta", FALSE, FALSE, FALSE)) \/ SendNothing
  /\ UNCHANGED StreamFrame

\* prompt_injection.go:283-289: message_stop.
AnthropicMessageStop ==
  /\ Reading("anthropic")
  /\ SendAndClose(StreamChunk("", TRUE, FALSE, TRUE))
  /\ UNCHANGED StreamFrame

\* prompt_injection.go:274 and 292-294: stream.Next gives false and
\* stream.Err is not nil.
AnthropicEndsWithError ==
  /\ Reading("anthropic")
  /\ SendAndClose(StreamChunk("", TRUE, TRUE, FALSE))
  /\ UNCHANGED StreamFrame

\* prompt_injection.go:274 and 292-295: stream.Next gives false and
\* stream.Err is nil (the event stream ended before a message_stop).
AnthropicEndsSilently ==
  /\ Reading("anthropic")
  /\ CloseOnly
  /\ UNCHANGED StreamFrame

\* part_013:143-159: a decoded line that is not the done line.
OllamaDecodeChunk ==
  /\ Reading("ollama")
  /\ sRecv < MaxStreamMsgs
  /\ Send(StreamChunk("delta", FALSE, FALSE, FALSE))
  /\ UNCHANGED StreamFrame

\* part_013:151-158: the done line.
OllamaDecodeDone ==
  /\ Reading("ollama")
  /\ SendAndClose(StreamChunk("", TRUE, FALSE, TRUE))
  /\ UNCHANGED StreamFrame

\* part_013:143-145: Decode fails with io.EOF.
OllamaDecodeEOF ==
  /\ Reading("ollama")
  /\ SendAndClose(StreamChunk("", TRUE, FALSE, FALSE))
  /\ UNCHANGED StreamFrame

\* part_013:146-149: Decode fails with another error.
OllamaDecodeError ==
  /\ Reading("ollama")
  /\ SendAndClose(StreamChunk("", TRUE, TRUE, FALSE))
  /\ UNCHANGED StreamFrame

\* The consumer receives one chunk from the channel (llm.go:62, `range ch`).
ConsumerReceives ==
  /\ sConsumer = "reading"
  /\ sBuf > 0
  /\ sBuf' = sBuf - 1
  /\ UNCHANGED <<gwVars, embVars, ragVars, chunkVars, ingestVars, sideVars, sProvider,
                 spc, sEvents, sRecv, sConsumer>>

\* The consumer stops receiving before the stream has ended.
ConsumerAbandons ==
  /\ sConsumer = "reading"
  /\ spc = "recv"
  /\ sConsumer' = "abandoned"
  /\ UNCHANGED <<gwVars, embVars, ragVars, chunkVars, ingestVars, sideVars, sProvider,
                 spc, sEvents, sRecv, sBuf>>

\* The steps of the goroutine that reads the backend and sends on the channel.
Producer ==
  \/ OpenAIRecvDelta
  \/ OpenAIRecvEOF
  \/ OpenAIRecvError
  \/ AnthropicNextEvent
  \/ AnthropicMessageStop
  \/ AnthropicEndsWithError
  \/ AnthropicEndsSilently
  \/ OllamaDecodeChunk
  \/ OllamaDecodeDone
  \/ OllamaDecodeEOF
  \/ OllamaDecodeError

NextStream ==
  \/ StreamOpenFails
  \/ StreamOpens
  \/ OpenAIRecvDelta
  \/ OpenAIRecvEOF
  \/ OpenAIRecvError
  \/ AnthropicNextEvent
  \/ AnthropicMessageStop
  \/ AnthropicEndsWithError
  \/ AnthropicEndsSilently
  \/ OllamaDecodeChunk
  \/ OllamaDecodeDone
  \/ OllamaDecodeEOF
  \/ OllamaDecodeError
  \/ ConsumerReceives
  \/ ConsumerAbandons

\* ==================================================================
\* Chunker (pkg/chunker) and rag.ChunkText
\* ==================================================================
\* A text is a sequence of characters.  The alphabet has a letter, the two
\* white-space characters the separators use, and a sentence end.
Chars == {"a", " ", "\n", "."}

\* unicode.IsSpace on the alphabet.
IsSpace(c) == c \in {" ", "\n"}

\* strings.TrimSpace on a text.
RECURSIVE StrTrimLeft(_)
StrTrimLeft(s) == IF s # <<>> /\ IsSpace(Head(s)) THEN StrTrimLeft(Tail(s)) ELSE s
RECURSIVE StrTrimRight(_)
StrTrimRight(s) ==
  IF s # <<>> /\ IsSpace(s[Len(s)]) THEN StrTrimRight(SubSeq(s, 1, Len(s) - 1)) ELSE s
StrTrimSpace(s) == StrTrimRight(StrTrimLeft(s))

\* strings.Index(s, sub), one-based; 0 when sub does not occur in s.
Index(s, sub) ==
  LET at == {i \in 1..(Len(s) - Len(sub) + 1) : SubSeq(s, i, i + Len(sub) - 1) = sub}
  IN  IF at = {} THEN 0 ELSE CHOOSE i \in at : \A j \in at : i <= j

\* strings.Split(s, sep) for a non-empty sep.
RECURSIVE Split(_, _)
Split(s, sep) ==
  LET i == Index(s, sep)
  IN  IF i = 0 THEN <<s>>
      ELSE <<SubSeq(s, 1, i - 1)>> \o Split(SubSeq(s, i + Len(sep), Len(s)), sep)

\* tokenizer.CountTokens: max(len(strings.Fields(text)) * 4 / 3, 1).
Fields(s) ==
  Cardinality({i \in 1..Len(s) : ~IsSpace(s[i]) /\ (i = 1 \/ IsSpace(s[i - 1]))})
CountTokens(s) == LET n == (Fields(s) * 4) \div 3 IN IF n > 1 THEN n ELSE 1

TextChunk(content, idx, start, end) ==
  [Content |-> content, Index |-> idx, Start |-> start, End |-> end]

\* chunkFixed lines 134-142: a window is kept unless it is white space only.
KeepsWindowAlways(content) == TRUE
KeepsWindow(content) == StrTrimSpace(content) # <<>>

\* chunkFixed lines 127-149: the window loop from offset start on.
RECURSIVE FixedLoop(_, _, _, _, _)
FixedLoop(runes, o, start, idx, chunks) ==
  IF start >= Len(runes) THEN chunks
  ELSE LET end == Min(start + o.ChunkSize, Len(runes))
           content == SubSeq(runes, start + 1, end)
           step == IF o.ChunkSize - o.ChunkOverlap <= 0
                     THEN o.ChunkSize ELSE o.ChunkSize - o.ChunkOverlap
       IN  IF KeepsWindow(content)
             THEN FixedLoop(runes, o, start + step, idx + 1,
                            Append(chunks, TextChunk(content, idx, start, end)))
             ELSE FixedLoop(runes, o, start + step, idx, chunks)

chunkFixed(text, o) == FixedLoop(text, o, 0, 0, <<>>)

\* splitSentences: a sentence ends at '.', '!' or '?' followed by a space.
RECURSIVE SentencesFrom(_, _, _, _)
SentencesFrom(text, i, current, sentences) ==
  IF i > Len(text)
    THEN IF current # <<>> THEN Append(sentences, current) ELSE sentences
    ELSE LET grown == Append(current, text[i])
         IN  IF text[i] \in {".", "!", "?"} /\ i < Len(text) /\ text[i + 1] = " "
               THEN SentencesFrom(text, i + 1, <<>>, Append(sentences, grown))
               ELSE SentencesFrom(text, i + 1, grown, sentences)

splitSentences(text) == SentencesFrom(text, 1, <<>>, <<>>)

\* chunkBySentence lines 229-246: accumulate sentences, flush when the next
\* one would exceed ChunkSize, flush what is left at the end.
RECURSIVE SentenceLoop(_, _, _, _, _, _)
SentenceLoop(sentences, k, o, current, idx, chunks) ==
  IF k > Len(sentences)
    THEN IF current # <<>>
           THEN Append(chunks, TextChunk(StrTrimSpace(current), idx, 0, 0))
           ELSE chunks
    ELSE IF current # <<>> /\ Len(current \o sentences[k]) > o.ChunkSize
           THEN SentenceLoop(sentences, k + 1, o, sentences[k], idx + 1,
                             Append(chunks, TextChunk(StrTrimSpace(current), idx, 0, 0)))
           ELSE SentenceLoop(sentences, k + 1, o, current \o sentences[k], idx, chunks)

chunkBySentence(text, o) == SentenceLoop(splitSentences(text), 1, o, <<>>, 0, <<>>)

\* chunkRecursive line 155.
separators == << <<"\n", "\n">>, <<"\n">>, <<".", " ">>, <<" ">> >>

\* splitRecursive lines 186-195: no separator left, fixed windows.
RECURSIVE Windows(_, _, _)
Windows(runes, i, chunkSize) ==
  IF i >= Len(runes) THEN <<>>
  ELSE <<SubSeq(runes, i + 1, Min(i + chunkSize, Len(runes)))>>
       \o Windows(runes, i + chunkSize, chunkSize)

RECURSIVE splitRecursive(_, _, _)
\* splitRecursive lines 203-216: the loop over the parts from part k on.
RECURSIVE SplitLoop(_, _, _, _, _, _)
SplitLoop(parts, k, seps, chunkSize, current, out) ==
  LET sep == Head(seps)
  IN  IF k > Len(parts)
        THEN IF current # <<>>
               THEN out \o splitRecursive(current, Tail(seps), chunkSize)
               ELSE out
        ELSE LET flush == current # <<>>
                          /\ Len(current \o sep \o parts[k]) > chunkSize
                 res == IF flush
                          THEN out \o splitRecursive(current, Tail(seps), chunkSize)
                          ELSE out
                 kept == IF flush THEN <<>> ELSE current
                 nxt == IF kept # <<>> THEN kept \o sep \o parts[k] ELSE parts[k]
             IN  SplitLoop(parts, k + 1, seps, chunkSize, nxt, res)

splitRecursive(text, seps, chunkSize) ==
  IF Len(text) <= chunkSize THEN <<text>>
  ELSE IF seps = <<>> THEN Windows(text, 0, chunkSize)
  ELSE SplitLoop(Split(text, Head(seps)), 1, seps, chunkSize, <<>>, <<>>)

\* chunkRecursive lines 161-174: trim each part, skip the empty ones.
RECURSIVE RecursiveLoop(_, _, _, _, _)
RecursiveLoop(text, parts, k, idx, chunks) ==
  IF k > Len(parts) THEN chunks
  ELSE LET part == StrTrimSpace(parts[k])
           byteOffset == Index(text, part) - 1
       IN  IF part = <<>>
             THEN RecursiveLoop(text, parts, k + 1, idx, chunks)
             ELSE RecursiveLoop(text, parts, k + 1, idx + 1,
                    Append(chunks, TextChunk(part, idx, byteOffset,
                                             byteOffset + Len(part))))

chunkRecursive(text, o) ==
  RecursiveLoop(text, splitRecursive(text, separators, o.ChunkSize), 1, 0, <<>>)

\* defaultChunker.Chunk lines 104-120.
Chunk(text, o) ==
  LET o1 == IF o.ChunkSize <= 0 THEN [o EXCEPT !.ChunkSize = 1000] ELSE o
      o2 == IF o1.ChunkOverlap < 0 THEN [o1 EXCEPT !.ChunkOverlap = 0] ELSE o1
  IN  CASE o2.Strategy = "sentence" -> chunkBySentence(text, o2)
        [] o2.Strategy = "fixed" -> chunkFixed(text, o2)
        [] OTHER -> chunkRecursive(text, o2)

\* rag.ChunkText (chunker.go:14-27).
ChunkText(text, o) ==
  LET chunks == Chunk(text, o)
  IN  [i \in 1..Len(chunks) |->
         [Content |-> chunks[i].Content, Index |-> chunks[i].Index,
          TokenCount |-> CountTokens(chunks[i].Content)]]

\* The texts of at most MaxTextLen characters.
Texts == UNION {[1..n -> Chars] : n \in 0..MaxTextLen}

\* The chunk options explored: sizes and overlaps around zero and up to
\* MaxChunkSize, the three strategies and an unknown one.
ChunkOptionsSet ==
  [ChunkSize : (-1)..MaxChunkSize, ChunkOverlap : {-1, 0, 1, MaxChunkSize},
   Strategy : {"fixed", "sentence", "recursive", ""}]

\* No Chunk call is running.
ChunkIdle ==
  /\ cpc = "idle"
  /\ cText = <<>>
  /\ cOpts = [ChunkSize |-> 0, ChunkOverlap |-> 0, Strategy |-> ""]
  /\ cOut = <<>>

\* Chunk is called with a text and options.
ChunkInit ==
  /\ cpc = "Chunk"
  /\ cText \in Texts
  /\ cOpts \in ChunkOptionsSet
  /\ cOut = <<>>

\* The one call: Chunk returns its chunks.
ChunkCall ==
  /\ cpc = "Chunk"
  /\ cOut' = Chunk(cText, cOpts)
  /\ cpc' = "done"
  /\ UNCHANGED <<gwVars, embVars, ragVars, cText, cOpts, ingestVars, streamVars, sideVars>>

NextChunk == ChunkCall

\* ==================================================================
\* LLMQueryRewriter.Rewrite (part_021:30-62) on texts
\* ==================================================================
\* The queries explored: the texts of at most MaxQueryLen characters.
WQueries == UNION {[1..n -> Chars] : n \in 0..MaxQueryLen}

\* line 56: a trimmed line is kept when it is not empty and not the query.
KeepsLineAlways(line, query) == TRUE
KeepsLine(line, query) == line # <<>> /\ line # query

\* lines 52-61: split the trimmed reply at the line breaks, trim each line,
\* keep the lines line 56 lets through, after the query itself.
Rewrite(query, content) ==
  LET lines == Split(StrTrimSpace(content), <<"\n">>)
      trimmed == [k \in 1..Len(lines) |-> StrTrimSpace(lines[k])]
  IN  <<query>> \o SelectSeq(trimmed, LAMBDA l : KeepsLine(l, query))

\* No Rewrite call is running.
RewriteIdle ==
  /\ wpc = "idle"
  /\ wQuery = <<>>
  /\ wContent = <<>>
  /\ wOut = [kind |-> "none", queries |-> <<>>, err |-> "nil"]

\* Rewrite is called with a query.
RewriteInit ==
  /\ wpc = "Rewrite"
  /\ wQuery \in WQueries
  /\ wContent = <<>>
  /\ wOut = [kind |-> "none", queries |-> <<>>, err |-> "nil"]

RewriteFrame == <<gwVars, embVars, ragVars, chunkVars, ingestVars, streamVars, chats,
                  wQuery>>

\* lines 31-50: gateway.Chat fails; the query alone is returned, no error.
RewriteChatFails ==
  /\ wpc = "Rewrite"
  /\ wContent' = <<>>
  /\ wOut' = [kind |-> "chatErr", queries |-> <<wQuery>>, err |-> "nil"]
  /\ wpc' = "done"
  /\ UNCHANGED RewriteFrame

\* lines 31-61: gateway.Chat answers with some content.
RewriteAnswers ==
  /\ wpc = "Rewrite"
  /\ \E content \in Texts :
       /\ wContent' = content
       /\ wOut' = [kind |-> "ok", queries |-> Rewrite(wQuery, content), err |-> "nil"]
  /\ wpc' = "done"
  /\ UNCHANGED RewriteFrame

NextRewrite ==
  \/ RewriteChatFails
  \/ RewriteAnswers

\* ==================================================================
\* pipeline.Ingest (pipeline.go:78-117)
\* ==================================================================
\* chunker.DefaultOptions (005_audit_webhooks.sql:90-96).
DefaultOptions == [ChunkSize |-> 1000, ChunkOverlap |-> 200, Strategy |-> "recursive"]

\* lines 79-82: a zero ChunkSize replaces the options by the defaults.
IngestOptions(r) ==
  IF r.ChunkOpts.ChunkSize = 0 THEN DefaultOptions ELSE r.ChunkOpts

\* What Ingest returns: nil or an error; panic is set when the call did not
\* return but died of a run-time panic.
IngestOk == [err |-> "nil", panic |-> FALSE]
IngestError(msg) == [err |-> msg, panic |-> FALSE]
IngestPanic(msg) == [err |-> msg, panic |-> TRUE]

\* Ingest is called with a document of at most MaxDocLen characters.
IngestInit ==
  /\ ipc = "Ingest"
  /\ ireq \in [TenantID : TenantIds, DocumentID : {"D1"},
               Content : UNION {[1..n -> Chars] : n \in 0..MaxDocLen},
               ChunkOpts : [ChunkSize : 0..MaxChunkSize, ChunkOverlap : {0, 1},
                            Strategy : {"fixed", "sentence", "recursive"}]]
  /\ chunkResults = <<>>
  /\ upserts = <<>>
  /\ iResult = [err |-> "none", panic |-> FALSE]

\* lines 85-87: no chunk, no ingest.
NoChunksNever(cr) == FALSE
NoChunks(cr) == Len(cr) = 0

\* lines 79-94: chunk the content; with no chunk return the error, otherwise
\* hand the chunk texts to embedSvc.Embed.
IngestChunk ==
  /\ ipc = "Ingest"
  /\ LET cr == ChunkText(ireq.Content, IngestOptions(ireq))
     IN  /\ chunkResults' = cr
         /\ IF NoChunks(cr)
              THEN /\ iResult' = IngestError("no chunks generated from content")
                   /\ ipc' = "done"
                   /\ UNCHANGED <<texts, epc>>
              ELSE /\ texts' = [i \in 1..Len(cr) |-> cr[i].Content]
                   /\ epc' = "Embed"
                   /\ ipc' = "embedding"
                   /\ iResult' = iResult
  /\ UNCHANGED <<gwVars, ragVars, chunkVars, streamVars, sideVars, ei, allEmbeddings, embedCalls,
                 eResult, ireq, upserts>>

\* lines 94-97: Embed returned an error.
IngestEmbedFailed ==
  /\ ipc = "embedding"
  /\ epc = "done"
  /\ eResult.err # "nil"
  /\ iResult' = IngestError("generate embeddings")
  /\ ipc' = "done"
  /\ UNCHANGED <<gwVars, embVars, ragVars, chunkVars, streamVars, sideVars, ireq, chunkResults, upserts>>

\* line 102, uuid.New(): an id no earlier call returned.  The ids are
\* numbered in the order they are made, over all the Upsert calls so far.
RECURSIVE RecordsIn(_)
RecordsIn(log) ==
  IF log = <<>> THEN 0 ELSE Len(Head(log).chunks) + RecordsIn(Tail(log))

NewUUID(i) == <<"new", RecordsIn(upserts) + i>>

\* lines 99-110: one record per chunk result, with embeddings[i].
ChunkRecordsMisaligned(r, cr, embeddings) ==
  [i \in 1..Len(cr) |->
     [ID |-> NewUUID(i), DocumentID |-> r.DocumentID, TenantID |-> r.TenantID,
      ChunkIndex |-> cr[i].Index, Content |-> cr[i].Content,
      Embedding |-> embeddings[Len(cr) + 1 - i], TokenCount |-> cr[i].TokenCount]]
ChunkRecords(r, cr, embeddings) ==
  [i \in 1..Len(cr) |->
     [ID |-> NewUUID(i), DocumentID |-> r.DocumentID, TenantID |-> r.TenantID,
      ChunkIndex |-> cr[i].Index, Content |-> cr[i].Content,
      Embedding |-> embeddings[i], TokenCount |-> cr[i].TokenCount]]

\* line 107 with fewer embeddings than chunk results: embeddings[i] is out
\* of range and the goroutine panics; nothing is returned.
IngestPanics ==
  /\ ipc = "embedding"
  /\ epc = "done"
  /\ eResult.err = "nil"
  /\ Len(eResult.vectors) < Len(chunkResults)
  /\ iResult' = IngestPanic("index out of range")
  /\ ipc' = "done"
  /\ UNCHANGED <<gwVars, embVars, ragVars, chunkVars, streamVars, sideVars, ireq, chunkResults, upserts>>

\* lines 99-116: the records are built and store.Upsert succeeds.
IngestUpsertOk ==
  /\ ipc = "embedding"
  /\ epc = "done"
  /\ eResult.err = "nil"
  /\ Len(eResult.vectors) >= Len(chunkResults)
  /\ upserts' = Append(upserts, [chunks |-> ChunkRecords(ireq, chunkResults, eResult.vectors),
                                 ok |-> TRUE])
  /\ iResult' = IngestOk
  /\ ipc' = "done"
  /\ UNCHANGED <<gwVars, embVars, ragVars, chunkVars, streamVars, sideVars, ireq, chunkResults>>

\* lines 99-114: the records are built and store.Upsert fails.
IngestUpsertFails ==
  /\ ipc = "embedding"
  /\ epc = "done"
  /\ eResult.err = "nil"
  /\ Len(eResult.vectors) >= Len(chunkResults)
  /\ upserts' = Append(upserts, [chunks |-> ChunkRecords(ireq, chunkResults, eResult.vectors),
                                 ok |-> FALSE])
  /\ iResult' = IngestError("store chunks")
  /\ ipc' = "done"
  /\ UNCHANGED <<gwVars, embVars, ragVars, chunkVars, streamVars, sideVars, ireq, chunkResults>>

\* PgVectorStore.Upsert (part_023:20-47) of one record into the rows of
\* document_chunks: INSERT ... ON CONFLICT (id) DO UPDATE SET content,
\* embedding, token_count (and metadata).  The table has no other unique
\* constraint (002_documents_vectors.sql:16-26).
UpsertRow(rows, c) ==
  IF \E k \in 1..Len(rows) : rows[k].ID = c.ID
    THEN [k \in 1..Len(rows) |->
            IF rows[k].ID = c.ID
              THEN [rows[k] EXCEPT !.Content = c.Content, !.Embedding = c.Embedding,
                                   !.TokenCount = c.TokenCount]
              ELSE rows[k]]
    ELSE Append(rows, c)

RECURSIVE UpsertRows(_, _)
UpsertRows(rows, chunks) ==
  IF chunks = <<>> THEN rows
  ELSE UpsertRows(UpsertRow(rows, Head(chunks)), Tail(chunks))

\* The rows of document_chunks after the Upsert calls of the log, the store
\* being empty before: a failed call's transaction is rolled back (line 25).
RECURSIVE StoreAfter(_)
StoreAfter(log) ==
  IF log = <<>> THEN <<>>
  ELSE LET before == StoreAfter(SubSeq(log, 1, Len(log) - 1))
           last == log[Len(log)]
       IN  IF last.ok THEN UpsertRows(before, last.chunks) ELSE before

\* The documents a re-ingest is explored with: the texts of letters and full
\* stops of at most MaxDocLen characters, cut into fixed windows.
ReingestRequests ==
  [TenantID : {"T1"}, DocumentID : {"D1"},
   Content : UNION {[1..n -> {"a", "."}] : n \in 1..MaxDocLen},
   ChunkOpts : [ChunkSize : 1..MaxChunkSize, ChunkOverlap : {0}, Strategy : {"fixed"}]]

\* Ingest is called for a document for the first time.
ReingestInit ==
  /\ ipc = "Ingest"
  /\ ireq \in ReingestRequests
  /\ chunkResults = <<>>
  /\ upserts = <<>>
  /\ iResult = [err |-> "none", panic |-> FALSE]

\* Ingest has succeeded once; it is called again for the same document and
\* tenant (document.go:162, a task that is run again), with the same or a
\* new content.
IngestAgain ==
  /\ ipc = "done"
  /\ iResult = IngestOk
  /\ Len(upserts) < 2
  /\ ireq' \in {r \in ReingestRequests :
                 r.DocumentID = ireq.DocumentID /\ r.TenantID = ireq.TenantID}
  /\ ipc' = "Ingest"
  /\ chunkResults' = <<>>
  /\ iResult' = [err |-> "none", panic |-> FALSE]
  /\ texts' = <<>>
  /\ epc' = "idle"
  /\ ei' = 0
  /\ allEmbeddings' = <<>>
  /\ embedCalls' = <<>>
  /\ eResult' = [err |-> "nil", batch |-> 0, vectors |-> <<>>]
  /\ UNCHANGED <<gwVars, ragVars, chunkVars, streamVars, sideVars, upserts>>

\* Ingest with the Embed call it makes.
NextIngest ==
  \/ IngestChunk
  \/ EmbedStart
  \/ EmbedBatchOk
  \/ EmbedBatchFails
  \/ EmbedReturn
  \/ IngestEmbedFailed
  \/ IngestPanics
  \/ IngestUpsertOk
  \/ IngestUpsertFails

\* ==================================================================
\* gateway.ChatStream and gateway.Embed (part_012:93-119)
\* ==================================================================
\* A ChatStream or an Embed call arrives at a gateway built by NewGateway.
SingleAttemptInit ==
  /\ providers \in SUBSET ProviderNames
  /\ defaultProvider \in ProviderNames \cup {""}
  /\ fallbackProvider \in ProviderNames \cup {""}
  /\ maxRetries \in (-1)..MaxRetries
  /\ reqProvider \in ProviderNames \cup {""}
  /\ ctxDone = FALSE
  /\ gpc \in {"ChatStream", "Embed"}
  /\ providerName = ""
  /\ cur = ""
  /\ onFallback = FALSE
  /\ attempt = 0
  /\ lastErr = NoErr
  /\ ret = NoErr
  /\ calls = <<>>
  /\ result = NoErr

\* lines 104 and 118: the provider calls the method makes on backend p.
ProviderCallThenFallback(p) ==
  IF fallbackProvider # "" /\ fallbackProvider # p
    THEN <<p, fallbackProvider>> ELSE <<p>>
ProviderCall(p) == <<p>>

\* ChatStream lines 93-105: select the backend, look it up, return what its
\* ChatCompletionStream returns.
GatewayChatStream ==
  /\ gpc = "ChatStream"
  /\ providerName' = SelectedBackend
  /\ IF Provider(SelectedBackend)
       THEN /\ calls' = calls \o ProviderCall(SelectedBackend)
            /\ result' \in {Ok(SelectedBackend), ErrProvider(SelectedBackend, 1)}
       ELSE /\ calls' = calls
            /\ result' = ErrNotConfigured(SelectedBackend)
  /\ gpc' = "ChatStream.done"
  /\ UNCHANGED <<gwConfig, notGateway, ctxDone, cur, onFallback, attempt,
                 lastErr, ret>>

\* Embed lines 107-119: select the backend, look it up, return what its
\* GenerateEmbedding returns.
GatewayEmbed ==
  /\ gpc = "Embed"
  /\ providerName' = SelectedBackend
  /\ IF Provider(SelectedBackend)
       THEN /\ calls' = calls \o ProviderCall(SelectedBackend)
            /\ result' \in {Ok(SelectedBackend), ErrProvider(SelectedBackend, 1)}
       ELSE /\ calls' = calls
            /\ result' = ErrNotConfigured(SelectedBackend)
  /\ gpc' = "Embed.done"
  /\ UNCHANGED <<gwConfig, notGateway, ctxDone, cur, onFallback, attempt,
                 lastErr, ret>>

NextSingleAttempt ==
  \/ GatewayChatStream
  \/ GatewayEmbed

\* ==================================================================
\* Concurrent calls on one gateway (part_012:12-17, 48-119)
\* ==================================================================
\* Two calls run at the same time.  The gateway's fields are shared; every
\* other value is a local variable or a parameter of the call's own
\* invocation of Chat / chatWithRetry / ChatStream / Embed.
CallIds == {"c1", "c2"}

IdleCall ==
  [kind |-> "", reqProvider |-> "", pc |-> "idle", ctxDone |-> FALSE,
   providerName |-> "", cur |-> "", onFallback |-> FALSE, attempt |-> 0,
   lastErr |-> NoErr, ret |-> NoErr, calls |-> <<>>, result |-> NoErr]

\* No concurrent call is running.
ChatsIdle == chats = [c \in CallIds |-> IdleCall]

NewCall(kind, reqP) == [IdleCall EXCEPT !.kind = kind, !.reqProvider = reqP, !.pc = "start"]

\* A gateway built by NewGateway with the OpenAI key set, the Anthropic key
\* set or not, default "openai", and "anthropic" or nothing as the fallback;
\* each call is a Chat, a ChatStream or an Embed that names "anthropic" or no
\* backend.
ConcurrentInit ==
  /\ providers \in {{"openai"}, {"openai", "anthropic"}}
  /\ defaultProvider = "openai"
  /\ fallbackProvider \in {"", "anthropic"}
  /\ maxRetries \in (-1)..MaxRetries
  /\ reqProvider = ""
  /\ ctxDone = FALSE
  /\ gpc = "idle"
  /\ providerName = ""
  /\ cur = ""
  /\ onFallback = FALSE
  /\ attempt = 0
  /\ lastErr = NoErr
  /\ ret = NoErr
  /\ calls = <<>>
  /\ result = NoErr
  /\ chats \in [CallIds -> {NewCall(k, rp) : k \in {"Chat", "ChatStream", "Embed"},
                                            rp \in {"", "anthropic"}}]

ConcurrentFrame ==
  <<gwVars, embVars, ragVars, chunkVars, ingestVars, streamVars, rewriteVars>>

\* `attempt++` (line 73) of call c: attempt is a variable of c's invocation.
IncrementAttemptShared(cs, c) == [d \in DOMAIN cs |-> [cs[d] EXCEPT !.attempt = @ + 1]]
IncrementAttempt(cs, c) == [cs EXCEPT ![c].attempt = @ + 1]

\* lines 49-52, 94-97, 108-111 of call c.
SelectedBackendOf(r) == IF r.reqProvider = "" THEN defaultProvider ELSE r.reqProvider

\* Chat lines 49-54 of call c.
CallChatSelect(c) ==
  /\ chats[c].kind = "Chat"
  /\ chats[c].pc = "start"
  /\ chats' = [chats EXCEPT ![c].providerName = SelectedBackendOf(chats[c]),
                            ![c].cur = SelectedBackendOf(chats[c]),
                            ![c].pc = "lookup"]
  /\ UNCHANGED ConcurrentFrame

\* chatWithRetry lines 67-72 of call c.
CallRetryLookup(c) ==
  /\ chats[c].pc = "lookup"
  /\ chats' = IF Provider(chats[c].cur)
                THEN [chats EXCEPT ![c].attempt = 0, ![c].lastErr = NoErr,
                                   ![c].pc = "loop"]
                ELSE [chats EXCEPT ![c].ret = ErrNotConfigured(chats[c].cur),
                                   ![c].pc = "ret"]
  /\ UNCHANGED ConcurrentFrame

\* chatWithRetry lines 73-80 and 90 of call c.
CallRetryLoopHead(c) ==
  /\ chats[c].pc = "loop"
  /\ chats' = IF LoopGuard(chats[c].attempt)
                THEN IF chats[c].attempt > 0
                       THEN IF chats[c].ctxDone
                              THEN [chats EXCEPT ![c].ret = ErrCanceled, ![c].pc = "ret"]
                              ELSE [chats EXCEPT ![c].pc = "backoff"]
                       ELSE [chats EXCEPT ![c].pc = "call"]
                ELSE [chats EXCEPT ![c].ret = ErrExhausted(chats[c].cur, chats[c].lastErr),
                                   ![c].pc = "ret"]
  /\ UNCHANGED ConcurrentFrame

\* lines 76-78 of call c.
CallBackoffCancelled(c) ==
  /\ chats[c].pc = "backoff"
  /\ chats[c].ctxDone
  /\ chats' = [chats EXCEPT ![c].ret = ErrCanceled, ![c].pc = "ret"]
  /\ UNCHANGED ConcurrentFrame

\* line 79 of call c.
CallBackoffElapsed(c) ==
  /\ chats[c].pc = "backoff"
  /\ chats' = [chats EXCEPT ![c].pc = "call"]
  /\ UNCHANGED ConcurrentFrame

\* lines 84-87 of call c.
CallAttemptSucceeds(c) ==
  /\ chats[c].pc = "call"
  /\ ~chats[c].ctxDone
  /\ chats' = [chats EXCEPT ![c].calls = Append(@, chats[c].cur),
                            ![c].ret = Ok(chats[c].cur),
                            ![c].pc = "ret"]
  /\ UNCHANGED ConcurrentFrame

\* lines 84-89 of call c.
CallAttemptFails(c) ==
  /\ chats[c].pc = "call"
  /\ chats' = IncrementAttempt(
                [chats EXCEPT ![c].calls = Append(@, chats[c].cur),
                              ![c].lastErr = RememberError(@,
                                 ErrProvider(chats[c].cur, Len(chats[c].calls) + 1)),
                              ![c].pc = "loop"], c)
  /\ UNCHANGED ConcurrentFrame

\* Chat lines 54-63 of call c: the first chatWithRetry has returned.
CallAfterPrimary(c) ==
  /\ chats[c].pc = "ret"
  /\ ~chats[c].onFallback
  /\ chats' = IF /\ IsErr(chats[c].ret)
                 /\ fallbackProvider # ""
                 /\ fallbackProvider # chats[c].providerName
                THEN [chats EXCEPT ![c].onFallback = TRUE,
                                   ![c].cur = fallbackProvider,
                                   ![c].pc = "lookup"]
                ELSE [chats EXCEPT ![c].result = chats[c].ret, ![c].pc = "done"]
  /\ UNCHANGED ConcurrentFrame

\* Chat line 61 of call c: the fallback's chatWithRetry has returned.
CallAfterFallback(c) ==
  /\ chats[c].pc = "ret"
  /\ chats[c].onFallback
  /\ chats' = [chats EXCEPT ![c].result = chats[c].ret, ![c].pc = "done"]
  /\ UNCHANGED ConcurrentFrame

\* ChatStream lines 93-105 / Embed lines 107-119 of call c.
CallSingleAttempt(c) ==
  /\ chats[c].kind \in {"ChatStream", "Embed"}
  /\ chats[c].pc = "start"
  /\ LET sel == SelectedBackendOf(chats[c])
     IN  IF Provider(sel)
           THEN \E res \in {Ok(sel), ErrProvider(sel, 1)} :
                  chats' = [chats EXCEPT ![c].providerName = sel,
                                         ![c].calls = ProviderCall(sel),
                                         ![c].result = res,
                                         ![c].pc = "done"]
           ELSE chats' = [chats EXCEPT ![c].providerName = sel,
                                       ![c].result = ErrNotConfigured(sel),
                                       ![c].pc = "done"]
  /\ UNCHANGED ConcurrentFrame

\* The caller of call c cancels its context.
CallCancel(c) ==
  /\ chats[c].kind = "Chat"
  /\ chats[c].pc \notin {"start", "done"}
  /\ ~chats[c].ctxDone
  /\ chats' = [chats EXCEPT ![c].ctxDone = TRUE]
  /\ UNCHANGED ConcurrentFrame

NextConcurrent ==
  \E c \in CallIds :
    \/ CallChatSelect(c)
    \/ CallRetryLookup(c)
    \/ CallRetryLoopHead(c)
    \/ CallBackoffCancelled(c)
    \/ CallBackoffElapsed(c)
    \/ CallAttemptSucceeds(c)
    \/ CallAttemptFails(c)
    \/ CallAfterPrimary(c)
    \/ CallAfterFallback(c)
    \/ CallSingleAttempt(c)
    \/ CallCancel(c)

\* ==================================================================
\* Specifications
\* ==================================================================
\* No Chat call is running.
GatewayIdle ==
  /\ providers = {}
  /\ defaultProvider = ""
  /\ fallbackProvider = ""
  /\ maxRetries = 0
  /\ reqProvider = ""
  /\ ctxDone = FALSE
  /\ gpc = "idle"
  /\ providerName = ""
  /\ cur = ""
  /\ onFallback = FALSE
  /\ attempt = 0
  /\ lastErr = NoErr
  /\ ret = NoErr
  /\ calls = <<>>
  /\ result = NoErr

\* No Ingest call is running.
IngestIdle ==
  /\ ipc = "idle"
  /\ ireq = [TenantID |-> NilUUID, DocumentID |-> "", Content |-> <<>>,
             ChunkOpts |-> [ChunkSize |-> 0, ChunkOverlap |-> 0, Strategy |-> ""]]
  /\ chunkResults = <<>>
  /\ upserts = <<>>
  /\ iResult = [err |-> "none", panic |-> FALSE]

SideIdle == RewriteIdle /\ ChatsIdle

DocIdle == ChunkIdle /\ IngestIdle /\ StreamIdle /\ SideIdle

vars == <<gwVars, embVars, ragVars, docVars>>

\* One Chat call on a gateway built by NewGateway; nothing else runs.
InitGateway == GatewayInit /\ EmbedIdle /\ RagIdle /\ DocIdle

SpecGateway == InitGateway /\ [][NextGateway]_vars

\* One multiQueryRetrieve call; nothing else runs.
InitMultiQuery == MultiQueryInit /\ GatewayIdle /\ EmbedIdle /\ DocIdle

SpecMultiQuery == InitMultiQuery /\ [][NextMultiQuery]_vars

\* One Rerank call; nothing else runs.
InitRerank == RerankInit /\ GatewayIdle /\ EmbedIdle /\ DocIdle

SpecRerank == InitRerank /\ [][NextRerank]_vars

\* One Generate call; nothing else runs.
InitGenerate == GenerateInit /\ GatewayIdle /\ EmbedIdle /\ DocIdle

SpecGenerate == InitGenerate /\ [][NextGenerate]_vars

\* One authenticated /rag/query or /rag/search request; nothing else runs.
InitPipeline == PipelineInit /\ GatewayIdle /\ EmbedIdle /\ DocIdle

SpecPipeline == InitPipeline /\ [][NextPipeline]_vars

\* One Chunk call; nothing else runs.
InitChunk == ChunkInit /\ IngestIdle /\ StreamIdle /\ GatewayIdle /\ EmbedIdle /\ RagIdle /\ SideIdle

SpecChunk == InitChunk /\ [][NextChunk]_vars

\* One Ingest call; nothing else runs.
InitIngest == IngestInit /\ ChunkIdle /\ StreamIdle /\ GatewayIdle /\ EmbedIdle /\ RagIdle /\ SideIdle

SpecIngest == InitIngest /\ [][NextIngest]_vars

\* Ingest calls for one document, one after the other; nothing else runs.
InitReingest ==
  ReingestInit /\ ChunkIdle /\ StreamIdle /\ GatewayIdle /\ EmbedIdle /\ RagIdle /\ SideIdle

SpecReingest == InitReingest /\ [][NextIngest \/ IngestAgain]_vars

\* One gateway.ChatStream or gateway.Embed call; nothing else runs.
InitSingleAttempt == SingleAttemptInit /\ EmbedIdle /\ RagIdle /\ DocIdle

SpecSingleAttempt == InitSingleAttempt /\ [][NextSingleAttempt]_vars

\* One provider ChatCompletionStream call and its goroutine; nothing else runs.
InitStream ==
  StreamInit /\ ChunkIdle /\ IngestIdle /\ GatewayIdle /\ EmbedIdle /\ RagIdle /\ SideIdle

SpecStream == InitStream /\ [][NextStream]_vars

\* The same, from its start or from a point of a longer stream, with a
\* goroutine that runs whenever it can: the Go scheduler does not starve a
\* runnable goroutine.  Nothing makes the consumer receive.
InitStreamLive ==
  /\ StreamInit \/ StreamMidway
  /\ ChunkIdle /\ IngestIdle /\ GatewayIdle /\ EmbedIdle /\ RagIdle /\ SideIdle

SpecStreamLive == InitStreamLive /\ [][NextStream]_vars /\ WF_vars(Producer)

\* One Rewrite call; nothing else runs.
InitRewrite ==
  /\ RewriteInit
  /\ ChatsIdle
  /\ ChunkIdle /\ IngestIdle /\ StreamIdle /\ GatewayIdle /\ EmbedIdle /\ RagIdle

SpecRewrite == InitRewrite /\ [][NextRewrite]_vars

\* Two gateway calls at the same time; nothing else runs.
InitConcurrent ==
  /\ ConcurrentInit
  /\ RewriteIdle
  /\ ChunkIdle /\ IngestIdle /\ StreamIdle /\ EmbedIdle /\ RagIdle

SpecConcurrent == InitConcurrent /\ [][NextConcurrent]_vars

\* One Embed call; nothing else runs.
InitEmbed == EmbedInit /\ GatewayIdle /\ RagIdle /\ DocIdle

SpecEmbed == InitEmbed /\ [][NextEmbed]_vars

\* ==================================================================
\* Properties of the gateway (SpecGateway)
\* ==================================================================
\* The Chat call has returned an error that is not the context's.
FailedNotCancelled ==
  /\ gpc = "done"
  /\ IsErr(result)
  /\ result.type # "Canceled"

\* C1: with maxRetries >= 0, no fallback configured and the selected backend
\* registered, a Chat call that fails (every attempt failed, the caller did
\* not abort it) has issued exactly 1+maxRetries provider attempts, all on
\* the selected backend, and returns the one "all retries exhausted" error
\* wrapping the error of the last attempt.
C1_ExactlyOnePlusMaxRetriesAttempts ==
  (/\ FailedNotCancelled
   /\ maxRetries >= 0
   /\ fallbackProvider = ""
   /\ providerName \in providers)
  => /\ Len(calls) = 1 + maxRetries
     /\ \A k \in 1..Len(calls) : calls[k] = providerName
     /\ result = ErrExhausted(providerName,
                              ErrProvider(providerName, 1 + maxRetries))

\* C1 witness: maxRetries = 2, no fallback, three failed attempts, exhausted.
C1_Witness ==
  /\ gpc = "done"
  /\ maxRetries = 2
  /\ fallbackProvider = ""
  /\ result.type = "Exhausted"
  /\ Len(calls) = 3

\* C2: with a registered fallback distinct from the registered selected
\* backend, a Chat call that fails has issued 1+maxRetries attempts on the
\* primary followed by 1+maxRetries attempts on the fallback, 2*(1+maxRetries)
\* in all, every primary attempt before every fallback attempt.
C2_PrimaryThenFallbackFullBudget ==
  (/\ FailedNotCancelled
   /\ maxRetries >= 0
   /\ fallbackProvider # ""
   /\ fallbackProvider # providerName
   /\ fallbackProvider \in providers
   /\ providerName \in providers)
  => /\ Len(calls) = 2 * (1 + maxRetries)
     /\ \A k \in 1..Len(calls) :
          calls[k] = IF k <= 1 + maxRetries THEN providerName
                                            ELSE fallbackProvider

\* C2 witness: maxRetries = 2, three attempts on the primary then three on
\* the fallback, and the call fails.
C2_Witness ==
  /\ FailedNotCancelled
  /\ maxRetries = 2
  /\ Len(calls) = 6
  /\ calls[3] = providerName
  /\ calls[4] = fallbackProvider
  /\ fallbackProvider # providerName

\* C3 (as claimed): once a backoff wait of the call has been aborted by the
\* caller's cancellation (chatWithRetry returned ctx.Err()), no further
\* provider attempt is issued on any backend.
C3_NoAttemptAfterCancelledWait ==
  [][ret.type = "Canceled" => calls' = calls]_vars

\* C4 (as claimed): a Chat call whose selected backend is not registered
\* returns the not-configured error of that backend and has issued no
\* provider attempt on any backend.
C4_NotConfiguredFailsWithoutAttempt ==
  (gpc = "done" /\ providerName \notin providers)
  => /\ calls = <<>>
     /\ result = ErrNotConfigured(providerName)

\* ==================================================================
\* Properties of the embedding service (SpecEmbed)
\* ==================================================================
RECURSIVE ConcatOutputs(_)
\* The outputs of the logged gateway calls, concatenated in call order.
ConcatOutputs(log) ==
  IF log = <<>> THEN <<>>
  ELSE ConcatOutputs(SubSeq(log, 1, Len(log) - 1)) \o log[Len(log)].output

\* ceil(n / 100)
CeilDiv100(n) == (n + 99) \div 100

\* C9: a successful Embed of n texts has issued exactly ceil(n/100) gateway
\* calls, the k-th on texts 100(k-1)+1 .. min(100k, n) in input order, and
\* returns the vectors of the calls concatenated in call order.
C9_BatchesOfHundredInOrder ==
  (epc = "done" /\ eResult.err = "nil")
  => /\ Len(embedCalls) = CeilDiv100(Len(texts))
     /\ \A k \in 1..Len(embedCalls) :
          embedCalls[k].input =
            SubSeq(texts, 100 * (k - 1) + 1, Min(100 * k, Len(texts)))
     /\ eResult.vectors = ConcatOutputs(embedCalls)

\* C9 witness: 250 texts, three calls, 250 vectors returned in input order.
C9_Witness ==
  /\ epc = "done"
  /\ eResult.err = "nil"
  /\ Len(texts) = 250
  /\ Len(embedCalls) = 3
  /\ eResult.vectors = [k \in 1..250 |-> Vec(texts[k])]

\* C10: when the gateway call of a batch fails, that call is the last one
\* issued, Embed returns the error naming that batch (zero-based) and returns
\* no vector.
C10_FailedBatchAbortsWithoutVectors ==
  \A k \in 1..Len(embedCalls) :
    ~embedCalls[k].ok
    => /\ k = Len(embedCalls)
       /\ epc = "done"
       /\ eResult.err = "embed batch"
       /\ eResult.batch = k - 1
       /\ embedCalls[k].input[1] = texts[100 * (k - 1) + 1]
       /\ eResult.vectors = <<>>

\* C10 witness: the third batch fails after two batches succeeded.
C10_Witness ==
  /\ epc = "done"
  /\ Len(embedCalls) = 3
  /\ embedCalls[1].ok
  /\ embedCalls[2].ok
  /\ ~embedCalls[3].ok
  /\ allEmbeddings # <<>>

\* ==================================================================
\* Properties of multi-query retrieval (SpecMultiQuery)
\* ==================================================================
RECURSIVE ConcatResults(_)
\* The result lists of the logged Retrieve calls that succeeded, concatenated
\* in call (= variant) order.
ConcatResults(log) ==
  IF log = <<>> THEN <<>>
  ELSE ConcatResults(SubSeq(log, 1, Len(log) - 1)) \o log[Len(log)].results

\* The entries of s whose chunk id occurs at no earlier position, in order.
FirstOccurrences(s) ==
  LET keep == {i \in 1..Len(s) : \A j \in 1..(i - 1) : s[j].ChunkID # s[i].ChunkID}
      nth(k) == CHOOSE i \in keep : Cardinality({j \in keep : j < i}) = k - 1
  IN  [k \in 1..Cardinality(keep) |-> s[nth(k)]]

\* The chunk ids of a result list, in order.
ChunkIds(rs) == [k \in 1..Len(rs) |-> rs[k].ChunkID]

\* The variants answered {A,B,C}, {B,C,D}, {D,E} and topK is 5.
SpecExample ==
  /\ Len(retrieveLog) = 3
  /\ ChunkIds(retrieveLog[1].results) = <<"A", "B", "C">>
  /\ ChunkIds(retrieveLog[2].results) = <<"B", "C", "D">>
  /\ ChunkIds(retrieveLog[3].results) = <<"D", "E">>
  /\ opts.TopK = 5

\* C6: what multiQueryRetrieve returns is the per-variant result lists
\* concatenated in variant order, each chunk id kept at its first occurrence
\* only, cut to the first topK entries; it holds no chunk id twice and at most
\* topK entries; for the variant answers {A,B,C}, {B,C,D}, {D,E} and topK = 5
\* it is exactly [A,B,C,D,E].
C6_FirstSeenDedupThenTopK ==
  ppc = "retrieved"
  => /\ LET merged == FirstOccurrences(ConcatResults(retrieveLog))
        IN  results = SubSeq(merged, 1, Min(opts.TopK, Len(merged)))
     /\ \A i, j \in 1..Len(results) :
          results[i].ChunkID = results[j].ChunkID => i = j
     /\ Len(results) <= opts.TopK
     /\ SpecExample => ChunkIds(results) = <<"A", "B", "C", "D", "E">>

\* C6 witness: the example of the specification has been merged.
C6_Witness ==
  /\ ppc = "retrieved"
  /\ SpecExample
  /\ ChunkIds(results) = <<"A", "B", "C", "D", "E">>

\* ==================================================================
\* Properties of the reranker (SpecRerank)
\* ==================================================================
\* C7: when the reranker's generation call failed, or its reply did not parse
\* as the score array, Rerank returns the candidates it was given, in the
\* same order with the same scores, and no error.
C7_RerankFailureReturnsInput ==
  (ppc = "reranked" /\ llmOut.kind \in {"chatErr", "parseErr"})
  => /\ results = rerankIn
     /\ rerankErr = "nil"

\* C7 witness: a reply that did not parse, for two or more candidates, which
\* came back as they were.
C7_Witness ==
  /\ ppc = "reranked"
  /\ llmOut.kind = "parseErr"
  /\ Len(rerankIn) >= 2
  /\ results = rerankIn

\* ==================================================================
\* Properties of the generator (SpecGenerate)
\* ==================================================================
\* C8: a Generate call that succeeds returns as many citations as it was
\* given context entries; citation i carries the document id, chunk id and
\* score of context entry i, and that entry is the one the prompt labels
\* [Source i] (counting from 1).
C8_CitationsAlignWithContext ==
  (ppc = "generated" /\ gen.err = "nil")
  => /\ Len(gen.Citations) = Len(genIn)
     /\ Len(prompt) = Len(genIn)
     /\ \A i \in 1..Len(genIn) :
          /\ gen.Citations[i].DocumentID = UUIDString(genIn[i].DocumentID)
          /\ gen.Citations[i].ChunkID = UUIDString(genIn[i].ChunkID)
          /\ gen.Citations[i].Score = genIn[i].Score
          /\ prompt[i].source = i
          /\ prompt[i].content = genIn[i].Content
          /\ gen.Citations[i].Content.of = prompt[i].content.of

\* C8 witness: three context entries of two documents, three citations.
C8_Witness ==
  /\ ppc = "generated"
  /\ gen.err = "nil"
  /\ Len(genIn) = 3
  /\ Len(gen.Citations) = 3
  /\ genIn[1].DocumentID # genIn[3].DocumentID
  /\ gen.Citations[3].DocumentID = UUIDString(genIn[3].DocumentID)

\* ------------------------------------------------------------------
\* C5: every vector-store search issued while serving Query or Search
\* carries the tenant id the auth layer attached to the request's context,
\* which is the authenticated caller's, and every chunk returned to the
\* caller belongs to that tenant.
\* ------------------------------------------------------------------
SearchesIssued == {k \in 1..Len(retrieveLog) : retrieveLog[k].kind # "embedErr"}

TenantOfChunk(id) ==
  LET k == CHOOSE j \in 1..Len(StoreChunks) : StoreChunks[j].id = id
  IN  StoreChunks[k].tenant

C5_SearchesCarryCallerTenant ==
  /\ \A k \in SearchesIssued :
       /\ retrieveLog[k].TenantID = IDFromContext(rctx)
       /\ retrieveLog[k].TenantID = authTenant
  /\ \A j \in 1..Len(pResult.results) :
       TenantOfChunk(pResult.results[j].ChunkID) = authTenant

\* ------------------------------------------------------------------
\* C19 (as claimed): whatever the strategy, the text and the options, no
\* chunk Chunk returns has empty or white-space-only content.
\* ------------------------------------------------------------------
C19_NoBlankChunk ==
  cpc = "done" => \A i \in 1..Len(cOut) : StrTrimSpace(cOut[i].Content) # <<>>

\* ------------------------------------------------------------------
\* C20: fixed strategy, size S > 0, overlap 0, a text of L characters.
\* ------------------------------------------------------------------
CeilDiv(a, b) == (a + b - 1) \div b

FixedNoOverlapDone ==
  /\ cpc = "done"
  /\ cOpts.Strategy = "fixed"
  /\ cOpts.ChunkSize > 0
  /\ cOpts.ChunkOverlap = 0

\* The k-th window of S characters of the text, k = 1, 2, ...
WindowOf(k) ==
  SubSeq(cText, cOpts.ChunkSize * (k - 1) + 1,
         Min(cOpts.ChunkSize * k, Len(cText)))

\* The windows that are not white space only, in text order.
InkWindows ==
  SelectSeq([k \in 1..CeilDiv(Len(cText), cOpts.ChunkSize) |-> WindowOf(k)],
            LAMBDA w : StrTrimSpace(w) # <<>>)

OrdinalsFromZero == \A i \in 1..Len(cOut) : cOut[i].Index = i - 1

\* C20 (as claimed): exactly ceil(L/S) chunks, ordinals 0..n-1.
C20_ExactlyCeilChunks ==
  FixedNoOverlapDone
  => /\ Len(cOut) = CeilDiv(Len(cText), cOpts.ChunkSize)
     /\ OrdinalsFromZero

\* C20 (amended): the chunks are the windows of S characters that are not
\* white space only, in text order, with ordinals 0..n-1; there are exactly
\* ceil(L/S) of them when no window is white space only.
C20_CeilChunksLessBlankWindows ==
  FixedNoOverlapDone
  => /\ [i \in 1..Len(cOut) |-> cOut[i].Content] = InkWindows
     /\ OrdinalsFromZero
     /\ (\A k \in 1..CeilDiv(Len(cText), cOpts.ChunkSize) :
           StrTrimSpace(WindowOf(k)) # <<>>)
        => Len(cOut) = CeilDiv(Len(cText), cOpts.ChunkSize)

\* C20 witness: a text chunked into more than one window, one of them blank
\* and dropped.
C20_Witness ==
  /\ FixedNoOverlapDone
  /\ Len(cOut) >= 2
  /\ Len(cOut) < CeilDiv(Len(cText), cOpts.ChunkSize)

\* ------------------------------------------------------------------
\* C11: when chunking produces no chunk, or the embedding step fails, Ingest
\* returns an error and has made no upsert call.
\* ------------------------------------------------------------------
ProducedChunks == ChunkText(ireq.Content, IngestOptions(ireq))

C11_IngestFailsFastWithoutUpsert ==
  (ipc = "done" /\ (Len(ProducedChunks) = 0 \/ eResult.err # "nil"))
  => /\ iResult.err \notin {"nil", "none"}
     /\ ~iResult.panic
     /\ upserts = <<>>

\* C11 witness: chunks were produced, the embedding call failed, Ingest
\* returned its error.
C11_Witness ==
  /\ ipc = "done"
  /\ Len(ProducedChunks) >= 2
  /\ Len(embedCalls) = 1
  /\ eResult.err = "embed batch"
  /\ iResult = IngestError("generate embeddings")
  /\ upserts = <<>>

\* ------------------------------------------------------------------
\* C12: a successful Ingest has made exactly one upsert call; it holds one
\* record per chunk the chunker produced, in order, each with the request's
\* tenant id and document id, the chunk's ordinal and content, and the
\* embedding Embed returned at the position of the chunk's text.
\* ------------------------------------------------------------------
C12_OneUpsertOneRecordPerChunk ==
  (ipc = "done" /\ iResult = IngestOk)
  => /\ Len(upserts) = 1
     /\ Len(upserts[1].chunks) = Len(ProducedChunks)
     /\ \A i \in 1..Len(ProducedChunks) :
          /\ upserts[1].chunks[i].TenantID = ireq.TenantID
          /\ upserts[1].chunks[i].DocumentID = ireq.DocumentID
          /\ upserts[1].chunks[i].ChunkIndex = ProducedChunks[i].Index
          /\ upserts[1].chunks[i].Content = ProducedChunks[i].Content
          /\ texts[i] = ProducedChunks[i].Content
          /\ upserts[1].chunks[i].Embedding = eResult.vectors[i]

\* C12 witness: a document of two different chunks ingested, each record
\* holding the vector of its own text.
C12_Witness ==
  /\ ipc = "done"
  /\ iResult = IngestOk
  /\ Len(upserts) = 1
  /\ Len(upserts[1].chunks) = 2
  /\ upserts[1].chunks[1].Content # upserts[1].chunks[2].Content
  /\ \A i \in 1..2 :
       upserts[1].chunks[i].Embedding = Vec(upserts[1].chunks[i].Content)

\* ------------------------------------------------------------------
\* C13 (as claimed): when Embed returns, without error, a number of vectors
\* different from the number of chunk texts sent, Ingest returns an error
\* and upserts nothing.
\* ------------------------------------------------------------------
C13_CountMismatchFailsIngest ==
  (/\ ipc = "done"
   /\ embedCalls # <<>>
   /\ eResult.err = "nil"
   /\ Len(eResult.vectors) # Len(texts))
  => /\ iResult.err \notin {"nil", "none"}
     /\ ~iResult.panic
     /\ upserts = <<>>

\* ------------------------------------------------------------------
\* C14: a request with topK <= 0 is not refused: Query retrieves with
\* topK = 5 and Search with topK = 10; a positive topK is used as given.
\* Every retrieval call of the request carries that topK, and no call
\* returns before a retrieval was made.
\* ------------------------------------------------------------------
EffectiveTopK ==
  IF req.TopK > 0 THEN req.TopK ELSE IF op = "Query" THEN 5 ELSE 10

C14_TopKDefaults ==
  /\ ppc \notin {"request", "handler"} => opts.TopK = EffectiveTopK
  /\ \A k \in 1..Len(retrieveLog) : retrieveLog[k].TopK = EffectiveTopK
  /\ ppc = "done" => retrieveLog # <<>>

\* C14 witness: a Query with topK <= 0 has retrieved with topK = 5 and
\* returned an answer.
C14_Witness ==
  /\ ppc = "done"
  /\ op = "Query"
  /\ req.TopK <= 0
  /\ pResult.err = "nil"
  /\ retrieveLog[1].TopK = 5
  /\ retrieveLog[1].kind = "ok"

\* ------------------------------------------------------------------
\* C15: Query and Search do not fail because of an enhancement: when no
\* retrieval with the original query has failed and (for Query) generation
\* has not failed, the call returns a result, whatever the HyDE, rewrite and
\* rerank calls did.
\* ------------------------------------------------------------------
OriginalRetrievalFailed ==
  \E k \in 1..Len(retrieveLog) :
    retrieveLog[k].query = 0 /\ retrieveLog[k].kind # "ok"

C15_EnhancementFailureNotFatal ==
  (ppc = "done" /\ ~OriginalRetrievalFailed /\ gen.err = "nil")
  => pResult.err = "nil"

\* C15 witness: a Query whose HyDE call gave nothing and whose rerank reply
\* did not parse has returned an answer.
C15_Witness ==
  /\ ppc = "done"
  /\ op = "Query"
  /\ req.UseHyDE
  /\ \A k \in 1..Len(retrieveLog) : retrieveLog[k].query # HypoDoc
  /\ llmOut.kind = "parseErr"
  /\ pResult.err = "nil"
  /\ Len(pResult.citations) > 0

\* ------------------------------------------------------------------
\* C16 (as claimed): when every retrieval call made for a request returned
\* an error, the call returns an error, in every mode, and Query has issued
\* no generation call.
\* ------------------------------------------------------------------
GenerationIssued == gen.err # "nil" \/ gen.Answer # ""

C16_AllRetrievalsFailedFailsCall ==
  (/\ ppc = "done"
   /\ retrieveLog # <<>>
   /\ \A k \in 1..Len(retrieveLog) : retrieveLog[k].kind # "ok")
  => /\ pResult.err # "nil"
     /\ ~GenerationIssued

\* ------------------------------------------------------------------
\* C18: ChatStream and Embed make exactly one provider call, on the selected
\* backend, or none when that backend is not configured; the fallback is
\* never called, whatever maxRetries and the fallback setting are.
\* ------------------------------------------------------------------
C18_StreamAndEmbedSingleAttempt ==
  gpc \in {"ChatStream.done", "Embed.done"}
  => IF SelectedBackend \in providers
       THEN calls = <<SelectedBackend>> /\ result.type \in {"ok", "Provider"}
       ELSE calls = <<>> /\ result = ErrNotConfigured(SelectedBackend)

\* C18 witness: the one call failed although retries and a configured,
\* different fallback were available.
C18_Witness ==
  /\ gpc = "ChatStream.done"
  /\ maxRetries >= 1
  /\ fallbackProvider \in providers
  /\ fallbackProvider # SelectedBackend
  /\ result = ErrProvider(SelectedBackend, 1)
  /\ calls = <<SelectedBackend>>

\* ------------------------------------------------------------------
\* C17 (as claimed): on every backend, the events sent on a stream's channel
\* before it is closed end with exactly one terminal (done) or error event:
\* the last event sent is terminal and no earlier one is.
\* ------------------------------------------------------------------
IsTerminal(c) == c.Done \/ c.Error

C17_StreamEndsWithOneTerminalEvent ==
  spc = "closed"
  => /\ sEvents # <<>>
     /\ IsTerminal(sEvents[Len(sEvents)])
     /\ \A k \in 1..(Len(sEvents) - 1) : ~IsTerminal(sEvents[k])

\* ------------------------------------------------------------------
\* C21 (as claimed): for every strategy the chunks hold every character of
\* the text that is not white space.  For the fixed strategy, whose windows
\* may overlap, every such character lies in a chunk that is the text between
\* its Start and End; for the other strategies the characters that are not
\* white space, read through the chunks in ordinal order, are those of the
\* text in text order.
\* ------------------------------------------------------------------
Ink(s) == SelectSeq(s, LAMBDA c : ~IsSpace(c))

RECURSIVE ConcatContents(_)
ConcatContents(chunks) ==
  IF chunks = <<>> THEN <<>> ELSE Head(chunks).Content \o ConcatContents(Tail(chunks))

C21_NoInkMissingFromChunks ==
  cpc = "done"
  => IF cOpts.Strategy = "fixed"
       THEN \A i \in 1..Len(cText) :
              ~IsSpace(cText[i])
              => \E k \in 1..Len(cOut) :
                   /\ cOut[k].Start < i
                   /\ i <= cOut[k].End
                   /\ cOut[k].Content = SubSeq(cText, cOut[k].Start + 1, cOut[k].End)
       ELSE Ink(ConcatContents(cOut)) = Ink(cText)

\* ------------------------------------------------------------------
\* C22 (as claimed): the recursive strategy returns no chunk longer than the
\* size, except that a text which is one token (no white space, so none of
\* the separators) longer than the size is returned whole as the only chunk.
\* ------------------------------------------------------------------
RecursiveDone ==
  /\ cpc = "done"
  /\ cOpts.Strategy \in {"recursive", ""}
  /\ cOpts.ChunkSize > 0

IsToken(s) == s # <<>> /\ \A i \in 1..Len(s) : ~IsSpace(s[i])

C22_OnlyAnUnsplittableTokenExceedsSize ==
  RecursiveDone
  => /\ \A k \in 1..Len(cOut) :
          Len(cOut[k].Content) > cOpts.ChunkSize => IsToken(cOut[k].Content)
     /\ (IsToken(cText) /\ Len(cText) > cOpts.ChunkSize)
        => /\ Len(cOut) = 1
           /\ cOut[1].Content = cText

\* ------------------------------------------------------------------
\* C23 (as claimed): in a call that asks for both HyDE and query rewriting,
\* the rewriting generation call is never made and the multi-query fan-out
\* is never entered; the retrievals of the call are the one with the
\* hypothetical document and, when HyDE fails, at most one with the original
\* query.
\* ------------------------------------------------------------------
RetrievalsWith(v) == {k \in 1..Len(retrieveLog) : retrieveLog[k].query = v}

C23_HydeExcludesRewriting ==
  (ppc \notin {"idle", "request"} /\ req.UseHyDE /\ req.QueryRewrite)
  => /\ \A k \in 1..Len(llmCalls) : llmCalls[k] # "rewrite"
     /\ ppc # "multiQuery"
     /\ \A k \in 1..Len(retrieveLog) : retrieveLog[k].query \in {HypoDoc, 0}
     /\ Cardinality(RetrievalsWith(0)) <= 1

\* ------------------------------------------------------------------
\* C24: when the reply parsed, Rerank returns the candidates it was given,
\* each once (same count, same chunk ids, same content), ordered by
\* non-increasing score; the candidate that was at input index i carries the
\* score the model gave for index i (the last one, if the model gave several),
\* and its retrieval score if the model gave none for i.
\* ------------------------------------------------------------------
ScoresGivenFor(i) == {k \in 1..Len(llmOut.scores) : llmOut.scores[k].Index = i}

LastScoreFor(i) ==
  LET k == CHOOSE j \in ScoresGivenFor(i) : \A h \in ScoresGivenFor(i) : h <= j
  IN  llmOut.scores[k].Score

\* The position in the output of the candidate that was at input position i.
RerankedAt(i) == {k \in 1..Len(results) : results[k].ChunkID = rerankIn[i].ChunkID}

C24_RerankPermutesAndScoresByIndex ==
  (ppc = "reranked" /\ llmOut.kind = "ok")
  => /\ Len(results) = Len(rerankIn)
     /\ \A i \in 1..Len(rerankIn) :
          /\ Cardinality(RerankedAt(i)) = 1
          /\ \A k \in RerankedAt(i) :
               /\ results[k] = [rerankIn[i] EXCEPT !.Score = results[k].Score]
               /\ results[k].Score = IF ScoresGivenFor(i - 1) # {}
                                       THEN LastScoreFor(i - 1)
                                       ELSE rerankIn[i].Score
     /\ \A k \in 1..(Len(results) - 1) : results[k].Score >= results[k + 1].Score

\* C24 witness: two or more candidates, every one scored by the model, and
\* the order of the candidates changed.
C24_Witness ==
  /\ ppc = "reranked"
  /\ llmOut.kind = "ok"
  /\ Len(rerankIn) >= 2
  /\ \A i \in 1..Len(rerankIn) : ScoresGivenFor(i - 1) # {}
  /\ \E k \in 1..Len(results) : results[k].ChunkID # rerankIn[k].ChunkID

\* ------------------------------------------------------------------
\* C25: Rewrite returns no error and a list whose first element is the
\* query; when the generation call failed the list is the query alone;
\* otherwise the query is followed, in the order of the reply, by the lines
\* of the reply, each trimmed, that are not empty and differ from the query.
\* ------------------------------------------------------------------
\* The lines of the reply, cut at its line breaks.
LineBreaks == {i \in 1..Len(wContent) : wContent[i] = "\n"}

LineCuts == <<0>> \o SortedSeq(LineBreaks) \o <<Len(wContent) + 1>>

ReplyLines ==
  [k \in 1..(Len(LineCuts) - 1) |->
     StrTrimSpace(SubSeq(wContent, LineCuts[k] + 1, LineCuts[k + 1] - 1))]

C25_RewriteKeepsOriginalFirst ==
  wpc = "done"
  => /\ wOut.err = "nil"
     /\ Len(wOut.queries) >= 1
     /\ wOut.queries[1] = wQuery
     /\ wOut.kind = "chatErr" => wOut.queries = <<wQuery>>
     /\ wOut.kind = "ok"
        => Tail(wOut.queries)
             = SelectSeq(ReplyLines, LAMBDA l : l # <<>> /\ l # wQuery)

\* C25 witness: a reply of two or more lines, one of them the query again
\* and dropped, one of them trimmed and kept.
C25_Witness ==
  /\ wpc = "done"
  /\ wOut.kind = "ok"
  /\ Len(wOut.queries) >= 2
  /\ \E k \in 1..Len(ReplyLines) : ReplyLines[k] = wQuery
  /\ \E k \in 1..(Len(LineCuts) - 1) :
       /\ ReplyLines[k] # SubSeq(wContent, LineCuts[k] + 1, LineCuts[k + 1] - 1)
       /\ ReplyLines[k] # <<>>
       /\ ReplyLines[k] # wQuery

\* ------------------------------------------------------------------
\* C26: when Chat fails after the attempts are used up, that is, after
\* 1+maxRetries attempts on every registered backend it tried, the last
\* backend tried being registered and at least one attempt having been made,
\* the error it returns is the "all retries exhausted" error of the last
\* backend tried, wrapping the error of the last provider attempt made.
\* (A fallback that is not registered has no attempt to use up; a negative
\* maxRetries leaves no attempt to wrap.)
\* ------------------------------------------------------------------
AttemptsOn(b) == Cardinality({k \in 1..Len(calls) : calls[k] = b})

BackendsTried == IF onFallback THEN {providerName, fallbackProvider} ELSE {providerName}

AttemptsUsedUp ==
  /\ gpc = "done"
  /\ IsErr(result)
  /\ calls # <<>>
  /\ cur \in providers
  /\ \A b \in BackendsTried : b \in providers => AttemptsOn(b) = 1 + maxRetries

C26_ExhaustedWrapsLastAttemptError ==
  AttemptsUsedUp
  => result = ErrExhausted(calls[Len(calls)],
                           ErrProvider(calls[Len(calls)], Len(calls)))

\* C26 witness: one retry at least, the primary's attempts and then the
\* fallback's all failed.
C26_Witness ==
  /\ AttemptsUsedUp
  /\ maxRetries >= 1
  /\ onFallback
  /\ Len(calls) = 2 * (1 + maxRetries)
  /\ result.type = "Exhausted"

\* ------------------------------------------------------------------
\* C30 (as claimed): whatever maxRetries is, a Chat call whose selected
\* backend is registered does not return an error before it has issued a
\* provider attempt.
\* ------------------------------------------------------------------
C30_AtLeastOneAttemptBeforeError ==
  (gpc = "done" /\ IsErr(result) /\ providerName \in providers)
  => calls # <<>>

\* ------------------------------------------------------------------
\* C27 (as claimed): once the goroutine of a chat stream is running it
\* always ends and closes the channel, whether the consumer keeps receiving
\* or has stopped.
\* ------------------------------------------------------------------
C27_ProducerAlwaysCloses == (spc = "recv") ~> (spc = "closed")

\* ------------------------------------------------------------------
\* C28: with two gateway calls running at the same time, under every
\* interleaving, each Chat call makes the attempts it would make alone: its
\* attempts on the selected backend come first and those on the fallback
\* after, at most 1+maxRetries on each, and while it is in the retry loop its
\* attempt counter is the number of attempts it has itself made on the
\* backend it is on; a ChatStream or Embed call makes at most one attempt;
\* a step of one call leaves the other call's locals as they were; and no
\* step changes the registry, the default, the fallback or maxRetries.
\* ------------------------------------------------------------------
AttemptsOfOn(c, b) ==
  Cardinality({k \in 1..Len(chats[c].calls) : chats[c].calls[k] = b})

AttemptBudget == IF maxRetries >= 0 THEN 1 + maxRetries ELSE 0

CallRunsAsAlone(c) ==
  LET r == chats[c]
  IN  IF r.kind = "Chat"
        THEN /\ \A k \in 1..Len(r.calls) :
                  r.calls[k] = IF k <= AttemptsOfOn(c, r.providerName)
                                 THEN r.providerName ELSE fallbackProvider
             /\ AttemptsOfOn(c, r.providerName) <= AttemptBudget
             /\ AttemptsOfOn(c, fallbackProvider) <= AttemptBudget
             /\ r.pc \in {"loop", "backoff", "call"} => r.attempt = AttemptsOfOn(c, r.cur)
        ELSE /\ Len(r.calls) <= 1
             /\ \A k \in 1..Len(r.calls) : r.calls[k] = r.providerName

GatewayFieldsUnchanged ==
  UNCHANGED <<providers, defaultProvider, fallbackProvider, maxRetries>>

OneCallSteps ==
  \A c \in CallIds : chats'[c] # chats[c] => \A d \in CallIds \ {c} : chats'[d] = chats[d]

C28_ConcurrentCallsDoNotInterfere ==
  /\ [](\A c \in CallIds : CallRunsAsAlone(c))
  /\ [][GatewayFieldsUnchanged /\ OneCallSteps]_vars

\* C28 witness: two Chat calls are in their retry loops at the same time,
\* each after a failed attempt, at different attempt numbers.
C28_Witness ==
  /\ \A c \in CallIds :
       /\ chats[c].kind = "Chat"
       /\ chats[c].pc \in {"loop", "backoff", "call"}
       /\ chats[c].attempt >= 1
  /\ chats["c1"].attempt # chats["c2"].attempt

\* ------------------------------------------------------------------
\* C29 (as claimed): after Ingest has succeeded twice for the same document
\* and tenant, the rows the store holds for that document are the chunks the
\* second Ingest wrote, one row for each of its ordinal indices and no row
\* of the first Ingest.
\* ------------------------------------------------------------------
SucceededTwice ==
  /\ ipc = "done"
  /\ iResult = IngestOk
  /\ Len(upserts) = 2
  /\ upserts[1].ok
  /\ upserts[2].ok

RowsOfDocument ==
  SelectSeq(StoreAfter(upserts),
            LAMBDA r : r.DocumentID = ireq.DocumentID /\ r.TenantID = ireq.TenantID)

C29_ReingestSupersedesEarlierChunks ==
  SucceededTwice => RowsOfDocument = upserts[2].chunks

====
